---- MODULE Spec2Model ----
(***************************************************************************)
(* Block allocation and file block mapping of scoutfs: the self-host       *)
(* bitmap allocator, the buddy allocator with its stable/dirty views       *)
(* (buddy.c) and the copy-on-write file block mapper with its reservoir    *)
(* (filerw.c).                                                             *)
(***************************************************************************)
EXTENDS Integers, Sequences, FiniteSets, TLC

(* ---------------------------------------------------------------------- *)
(* Constants of format.h, scaled to a volume TLC can enumerate.            *)
(* ---------------------------------------------------------------------- *)
SCOUTFS_BUDDY_BM_BLKNO == 2
SCOUTFS_BUDDY_BM_NR == 2
SCOUTFS_BUDDY_ORDERS == 3
SCOUTFS_BUDDY_ORDER0_BITS == 4
SCOUTFS_BUDDY_SLOTS == 2
SCOUTFS_BLOCK_MAP_SHIFT == 1
SCOUTFS_BLOCK_MAP_COUNT == 2 ^ SCOUTFS_BLOCK_MAP_SHIFT
SCOUTFS_BLOCK_MAP_MASK == SCOUTFS_BLOCK_MAP_COUNT - 1

ENOSPC == 28
EIO == 5
EINVAL == 22
ENOMEM == 12
INT_MAX == 2147483647
(* TLC's integers are 32 bits wide: the initial blkno of find_first_fit is   *)
(* the largest of them, above every block number of the volume.            *)
U64_MAX == INT_MAX

(* Bounds of the model: the geometry of the volume mkfs made.              *)
BuddyBlocks == 6
LastSlotBlocks == 3
(* ... the number of calls a behaviour makes to the allocator ...          *)
MaxCalls == 8
(* ... and, of the writers of files, the number of calls they and the       *)
(* commits make and the highest logical block they write.                  *)
MaxFileCalls == 5
MaxIblock == 1
(* ... and the number of those calls where readers of the block map look on *)
MaxReadCalls == 4
(* ... and the number of calls of the allocator between which              *)
(* scoutfs_buddy_was_free is asked                                         *)
MaxQueryCalls == 5
(* ... and the number of calls the threads make that take the locks step   *)
(* by step                                                                 *)
MaxLockCalls == 3
(* ... and the number of calls (and commits) of the threads that take the  *)
(* reservoir's spin lock                                                   *)
MaxSpinCalls == 6
(* ... and the number of calls with any argument                           *)
MaxAnyCalls == 3
(* ... and the order 0 bits of the wide buddy block that is seeded         *)
WideBits == 8
(* ... and the number of calls made on the wide slot                       *)
MaxWideCalls == 6
(* ... and the number of calls (and commits) of the single writer         *)
MaxPopCalls == 6
(* ... and the calls of scoutfs_write_begin                                *)
MaxWrites == 3
(* ... and the calls of map_writable_block and commits beside them        *)
MaxWriteCalls == 3
(* ... and the calls of the block layer on blocks of every region        *)
MaxSameCalls == 4
(* ... and the blocks of a buffer that the read path maps in one call     *)
MaxBhBlocks == 2
(* ... and the calls of the writer beside that reader                      *)
MaxGetBlockCalls == 4
(* ... and the calls before an allocation whose loops are counted          *)
MaxLoopCalls == 6

Orders == 0 .. (SCOUTFS_BUDDY_ORDERS - 1)
SlotIds == 0 .. (SCOUTFS_BUDDY_SLOTS - 1)

Pow2(n) == 2 ^ n
Min(a, b) == IF a < b THEN a ELSE b

(* nr ^ 1 and nr | 1 *)
Xor1(nr) == IF nr % 2 = 0 THEN nr + 1 ELSE nr - 1
Or1(nr) == IF nr % 2 = 0 THEN nr + 1 ELSE nr

(* ---------------------------------------------------------------------- *)
(* Block number arithmetic.                                                *)
(* ---------------------------------------------------------------------- *)
REGION_PAIR == "REGION_PAIR"
REGION_BM == "REGION_BM"
REGION_BUDDY == "REGION_BUDDY"

blkno_region(sup, blkno) ==
    IF blkno < SCOUTFS_BUDDY_BM_BLKNO + SCOUTFS_BUDDY_BM_NR THEN REGION_PAIR
    ELSE IF blkno < SCOUTFS_BUDDY_BM_BLKNO + SCOUTFS_BUDDY_BM_NR + sup.buddy_blocks
         THEN REGION_BM
    ELSE REGION_BUDDY

first_blkno(sup) ==
    SCOUTFS_BUDDY_BM_BLKNO + SCOUTFS_BUDDY_BM_NR + sup.buddy_blocks

(* The (u32) cast never truncates: every caller passes a blkno of the     *)
(* buddy region, at or above first_blkno and far below 2^32.               *)
indirect_slot(sup, blkno) ==
    (blkno - first_blkno(sup)) \div SCOUTFS_BUDDY_ORDER0_BITS

slot_buddy_blkno(sup, sl, order, nr) ==
    first_blkno(sup) + (sl * SCOUTFS_BUDDY_ORDER0_BITS) + (nr * Pow2(order))

slot_count(sup, sl) ==
    Min(sup.total_blocks - (first_blkno(sup) + (sl * SCOUTFS_BUDDY_ORDER0_BITS)),
        SCOUTFS_BUDDY_ORDER0_BITS)

buddy_bit(sup, blkno) ==
    (blkno - first_blkno(sup)) % SCOUTFS_BUDDY_ORDER0_BITS

valid_order(sup, blkno, order) ==
    buddy_bit(sup, blkno) % Pow2(order) = 0

(* ---------------------------------------------------------------------- *)
(* The bits of one buddy block: one flat bitmap, an order after another.   *)
(* ---------------------------------------------------------------------- *)
order_off(order) ==
    IF order = 0 THEN 0
    ELSE (2 * SCOUTFS_BUDDY_ORDER0_BITS)
         - (SCOUTFS_BUDDY_ORDER0_BITS \div Pow2(order - 1))

order_nr(order, nr) == order_off(order) + nr

test_buddy_bit(bud, order, nr) == order_nr(order, nr) \in bud.bits

RECURSIVE test_buddy_bit_or_higher(_, _, _)
test_buddy_bit_or_higher(bud, order, nr) ==
    IF order >= SCOUTFS_BUDDY_ORDERS THEN FALSE
    ELSE IF test_buddy_bit(bud, order, nr) THEN TRUE
    ELSE test_buddy_bit_or_higher(bud, order + 1, nr \div 2)

(* ib is the pair of the indirect block and one of its buddy blocks *)
set_buddy_bit(ib, order, nr) ==
    IF order_nr(order, nr) \in ib.bud.bits THEN ib
    ELSE [ind |-> [ib.ind EXCEPT !.order_totals[order] = @ + 1],
          bud |-> [bits |-> ib.bud.bits \cup {order_nr(order, nr)},
                   order_counts |-> [ib.bud.order_counts EXCEPT ![order] = @ + 1]]]

(* the bit is cleared and order_totals keeps counting it *)
clear_buddy_bit_counted(ib, order, nr) ==
    IF order_nr(order, nr) \notin ib.bud.bits THEN ib
    ELSE [ind |-> ib.ind,
          bud |-> [bits |-> ib.bud.bits \ {order_nr(order, nr)},
                   order_counts |-> [ib.bud.order_counts EXCEPT ![order] = @ - 1]]]

clear_buddy_bit(ib, order, nr) ==
    IF order_nr(order, nr) \notin ib.bud.bits THEN ib
    ELSE [ind |-> [ib.ind EXCEPT !.order_totals[order] = @ - 1],
          bud |-> [bits |-> ib.bud.bits \ {order_nr(order, nr)},
                   order_counts |-> [ib.bud.order_counts EXCEPT ![order] = @ - 1]]]

(* find_next_bit_le(bits, size, offset): size when no bit is found *)
find_next_bit_le(bits, size, offset) ==
    LET c == {p \in bits : p >= offset /\ p < size}
    IN IF c = {} THEN size ELSE CHOOSE p \in c : \A q \in c : p <= q

(* An nr of INT_MAX makes order_nr() wrap (the kernel is built with        *)
(* -fno-strict-overflow) to an offset that is not below size as an         *)
(* unsigned long, so the search finds nothing.                             *)
find_next_buddy_bit(bud, order, nr) ==
    LET size == order_off(order + 1)
        p == IF nr = INT_MAX THEN size
             ELSE find_next_bit_le(bud.bits, size, order_nr(order, nr))
    IN IF p >= size THEN INT_MAX ELSE p - order_off(order)

(* the loop stops one order short *)
update_free_orders_short(bud) ==
    {i \in 0 .. (SCOUTFS_BUDDY_ORDERS - 2) : bud.order_counts[i] # 0}

update_free_orders(bud) ==
    {i \in Orders : bud.order_counts[i] # 0}

(* ---------------------------------------------------------------------- *)
(* The block layer, as far as the allocator uses it.  A referenced block   *)
(* is stable when the stable super references the same blkno; dirtying a   *)
(* stable block allocates its copy in the same region and frees the old    *)
(* blkno.  Blocks of the pair region alternate between the two blknos.     *)
(* ---------------------------------------------------------------------- *)
block_dirty_ref_pair(existing, stable) ==
    IF existing = stable THEN Xor1(existing) ELSE existing

(* ---------------------------------------------------------------------- *)
(* The bitmap allocator of buddy blocks.                                   *)
(* ---------------------------------------------------------------------- *)
(* the stable bitmap is not consulted *)
bitmap_scan_dirty(bits, st_bits, size, s) == find_next_bit_le(bits, size, s)

RECURSIVE bitmap_scan(_, _, _, _)
bitmap_scan(bits, st_bits, size, s) ==
    LET d == find_next_bit_le(bits, size, s)
        s2 == find_next_bit_le(st_bits, size, d)
    IN IF d # s2 THEN bitmap_scan(bits, st_bits, size, s2) ELSE d

bitmap_alloc(sup, st) ==
    IF sup.buddy_bm_ref = 0 \/ st.buddy_bm_ref = 0
    THEN [ret |-> -EIO, blkno |-> 0, sup |-> sup]
    ELSE LET sup1 == [sup EXCEPT !.buddy_bm_ref =
                          block_dirty_ref_pair(@, st.buddy_bm_ref)]
             size == sup.buddy_blocks
             found(d) ==
                IF d >= size
                THEN [ret |-> -ENOSPC, blkno |-> 0, sup |-> sup1]
                ELSE [ret |-> 0,
                      blkno |-> SCOUTFS_BUDDY_BM_BLKNO + SCOUTFS_BUDDY_BM_NR + d,
                      sup |-> [sup1 EXCEPT !.bm = @ \ {d}]]
         IN found(bitmap_scan(sup1.bm, st.bm, size, 0))

bitmap_free(sup, st, blkno) ==
    IF sup.buddy_bm_ref = 0
    THEN [ret |-> -EIO, sup |-> sup]
    ELSE LET sup1 == [sup EXCEPT !.buddy_bm_ref =
                          block_dirty_ref_pair(@, st.buddy_bm_ref)]
             nr == blkno - (SCOUTFS_BUDDY_BM_BLKNO + SCOUTFS_BUDDY_BM_NR)
         IN [ret |-> 0, sup |-> [sup1 EXCEPT !.bm = @ \cup {nr}]]

(* scoutfs_block_dirty_ref() of a block of the bitmap region (the indirect *)
(* block, a buddy block): the copy comes from bitmap_alloc through         *)
(* scoutfs_buddy_alloc_same and the stable blkno goes to bitmap_free       *)
(* through scoutfs_buddy_free.                                             *)
block_dirty_ref_bm(sup, st, existing, stable) ==
    IF existing # stable
    THEN [ret |-> 0, blkno |-> existing, sup |-> sup]
    ELSE LET cow(a) ==
                IF a.ret # 0
                THEN [ret |-> a.ret, blkno |-> existing, sup |-> a.sup]
                ELSE [ret |-> 0, blkno |-> a.blkno,
                      sup |-> bitmap_free(a.sup, st, existing).sup]
         IN cow(bitmap_alloc(sup, st))

(* ---------------------------------------------------------------------- *)
(* The buddy allocator.                                                    *)
(* ---------------------------------------------------------------------- *)
slot_ib(sup, sl) == [ind |-> sup.ind, bud |-> sup.bud[sl]]

(* dirty_buddy_block: the initial run of highest orders *)
RECURSIVE seed_run(_, _, _)
seed_run(ib, count, nr) ==
    IF count > Pow2(SCOUTFS_BUDDY_ORDERS - 1)
    THEN seed_run(set_buddy_bit(ib, SCOUTFS_BUDDY_ORDERS - 1, nr),
                  count - Pow2(SCOUTFS_BUDDY_ORDERS - 1), nr + 1)
    ELSE [ib |-> ib, count |-> count, nr |-> nr]

(* the bit number does not step over the bit that was set *)
RECURSIVE seed_rest_stay(_, _, _, _)
seed_rest_stay(ib, count, order, nr) ==
    LET isset == (count \div Pow2(order)) % 2 = 1
        nr1 == nr * 2
        rest(ib1) ==
           IF order = 0 THEN ib1 ELSE seed_rest_stay(ib1, count, order - 1, nr1)
    IN rest(IF isset THEN set_buddy_bit(ib, order, nr) ELSE ib)

(* dirty_buddy_block: an order bit for each bit set in the remaining count *)
RECURSIVE seed_rest(_, _, _, _)
seed_rest(ib, count, order, nr) ==
    LET isset == (count \div Pow2(order)) % 2 = 1
        nr1 == IF isset THEN (nr + 1) * 2 ELSE nr * 2
        rest(ib1) ==
           IF order = 0 THEN ib1 ELSE seed_rest(ib1, count, order - 1, nr1)
    IN rest(IF isset THEN set_buddy_bit(ib, order, nr) ELSE ib)

(* dirty_buddy_block: the free bits of a slot of count blocks *)
seed_bits(ib, count) ==
    LET rest(run) == seed_rest(run.ib, run.count,
                               SCOUTFS_BUDDY_ORDERS - 1, run.nr)
    IN rest(seed_run(ib, count, 0))

dirty_buddy_block(sup, st, sl) ==
    IF sup.ind.slots[sl].ref # 0
    THEN LET dirtied(r) ==
                [ret |-> r.ret,
                 sup |-> [r.sup EXCEPT !.ind.slots[sl].ref = r.blkno]]
         IN dirtied(block_dirty_ref_bm(sup, st, sup.ind.slots[sl].ref,
                                       st.ind.slots[sl].ref))
    ELSE LET seeded(a, ib) ==
                [ret |-> 0,
                 sup |-> [a.sup EXCEPT
                            !.ind = [ib.ind EXCEPT
                                       !.slots[sl] =
                                          [ref |-> a.blkno,
                                           free_orders |->
                                              update_free_orders(ib.bud)]],
                            !.bud[sl] = ib.bud]]
             created(a) ==
                IF a.ret # 0 THEN [ret |-> a.ret, sup |-> a.sup]
                ELSE seeded(a, seed_bits(
                                  [ind |-> a.sup.ind,
                                   bud |-> [bits |-> {},
                                            order_counts |->
                                               [i \in Orders |-> 0]]],
                                  slot_count(a.sup, sl)))
         IN created(bitmap_alloc(sup, st))

(* one pass of find_first_fit's for loop, from order i up *)
RECURSIVE find_first_fit_pass(_, _, _, _, _, _, _)
find_first_fit_pass(sup, sl, bud, st_null, st_bud, i, acc) ==
    IF i >= SCOUTFS_BUDDY_ORDERS THEN acc
    ELSE LET body(nr) ==
                IF nr = INT_MAX
                THEN [acc EXCEPT !.nrs[i] = nr]
                ELSE IF st_null \/ ~test_buddy_bit_or_higher(st_bud, i, nr)
                THEN [acc EXCEPT !.nrs[i] = nr + 1,
                                 !.made_progress = TRUE]
                ELSE IF slot_buddy_blkno(sup, sl, i, nr) < acc.blkno
                THEN [acc EXCEPT !.nrs[i] = nr,
                                 !.made_progress = TRUE,
                                 !.blkno = slot_buddy_blkno(sup, sl, i, nr),
                                 !.order_ret = i,
                                 !.ret = nr]
                ELSE [acc EXCEPT !.nrs[i] = nr,
                                 !.made_progress = TRUE]
         IN find_first_fit_pass(sup, sl, bud, st_null, st_bud, i + 1,
                                body(find_next_buddy_bit(bud, i, acc.nrs[i])))

RECURSIVE find_first_fit_loop(_, _, _, _, _, _, _)
find_first_fit_loop(sup, sl, bud, st_null, st_bud, order, acc) ==
    LET again(a) ==
           IF a.ret = INT_MAX /\ a.made_progress
           THEN find_first_fit_loop(sup, sl, bud, st_null, st_bud, order, a)
           ELSE a
    IN again(find_first_fit_pass(sup, sl, bud, st_null, st_bud, order,
                                 [acc EXCEPT !.made_progress = FALSE]))

(* the candidates are tested against the dirty buddy block *)
find_first_fit_dirty(sup, sl, bud, st_null, st_bud, order) ==
    find_first_fit_loop(sup, sl, bud, FALSE, bud, order,
                        [nrs |-> [i \in Orders |-> 0], blkno |-> U64_MAX,
                         made_progress |-> FALSE, ret |-> INT_MAX,
                         order_ret |-> 0])

(* ret is the bit found, INT_MAX for none, and order_ret its order *)
find_first_fit(sup, sl, bud, st_null, st_bud, order) ==
    find_first_fit_loop(sup, sl, bud, st_null, st_bud, order,
                        [nrs |-> [i \in Orders |-> 0], blkno |-> U64_MAX,
                         made_progress |-> FALSE, ret |-> INT_MAX,
                         order_ret |-> 0])

(* the left buddies are set, the allocated extent among them *)
RECURSIVE free_left_buddies(_, _, _, _)
free_left_buddies(ib, nr, i, order) ==
    IF i >= order
    THEN free_left_buddies(set_buddy_bit(ib, i, nr), nr * 2, i - 1, order)
    ELSE ib

(* alloc_slot: the right buddies of the orders below the found one *)
RECURSIVE free_right_buddies(_, _, _, _)
free_right_buddies(ib, nr, i, order) ==
    IF i >= order
    THEN free_right_buddies(set_buddy_bit(ib, i, Or1(nr)), nr * 2, i - 1, order)
    ELSE ib

alloc_slot(sup, st, sl, order) ==
    LET split(d, f, ib2) ==
           [ret |-> 0,
            blkno |-> slot_buddy_blkno(d.sup, sl, f.order_ret, f.ret),
            sup |-> [d.sup EXCEPT
                       !.ind = [ib2.ind EXCEPT
                                  !.slots[sl].free_orders =
                                     update_free_orders(ib2.bud)],
                       !.bud[sl] = ib2.bud]]
        found(d, f) ==
           IF f.ret = INT_MAX
           THEN [ret |-> -ENOSPC, blkno |-> 0, sup |-> d.sup]
           ELSE split(d, f,
                      free_right_buddies(
                          clear_buddy_bit(slot_ib(d.sup, sl), f.order_ret, f.ret),
                          f.ret * 2, f.order_ret - 1, order))
        dirtied(d) ==
           IF d.ret # 0 THEN [ret |-> d.ret, blkno |-> 0, sup |-> d.sup]
           ELSE found(d, find_first_fit(d.sup, sl, d.sup.bud[sl],
                                        st.ind.slots[sl].ref = 0, st.bud[sl],
                                        order))
    IN dirtied(dirty_buddy_block(sup, st, sl))

(* mask = ~0U << order *)
order_mask(order) == {k \in Orders : k >= order}

RECURSIVE alloc_order_slots(_, _, _, _, _)
alloc_order_slots(sup, st, order, i, ret) ==
    IF i >= SCOUTFS_BUDDY_SLOTS THEN [ret |-> ret, blkno |-> 0, sup |-> sup]
    ELSE IF ~(/\ (order_mask(order) \cap sup.ind.slots[i].free_orders) # {}
              /\ (order_mask(order) \cap st.ind.slots[i].free_orders) # {})
    THEN alloc_order_slots(sup, st, order, i + 1, -ENOSPC)
    ELSE LET tried(a) ==
                IF a.ret # -ENOSPC THEN a
                ELSE alloc_order_slots(a.sup, st, order, i + 1, a.ret)
         IN tried(alloc_slot(sup, st, i, order))

alloc_order(sup, st, order) ==
    IF sup.buddy_ind_ref = 0 \/ st.buddy_ind_ref = 0
    THEN [ret |-> -EIO, blkno |-> 0, sup |-> sup]
    ELSE LET dirtied(r) ==
                IF r.ret # 0 THEN [ret |-> r.ret, blkno |-> 0, sup |-> r.sup]
                ELSE alloc_order_slots([r.sup EXCEPT !.buddy_ind_ref = r.blkno],
                                       st, order, 0, -ENOSPC)
         IN dirtied(block_dirty_ref_bm(sup, st, sup.buddy_ind_ref,
                                       st.buddy_ind_ref))

RECURSIVE buddy_alloc_loop(_, _, _)
buddy_alloc_loop(sup, st, order) ==
    LET tried(r) ==
           IF r.ret = -ENOSPC /\ order # 0
           THEN buddy_alloc_loop(r.sup, st, order - 1)
           ELSE [ret |-> IF r.ret # 0 THEN r.ret ELSE order,
                 blkno |-> r.blkno, sup |-> r.sup]
    IN tried(alloc_order(sup, st, order))

(* smaller orders are not tried *)
buddy_alloc_once(sup, st, order) ==
    IF order < 0 \/ order >= SCOUTFS_BUDDY_ORDERS
    THEN [ret |-> -EINVAL, blkno |-> 0, sup |-> sup]
    ELSE LET tried(r) ==
                [ret |-> IF r.ret # 0 THEN r.ret ELSE order,
                 blkno |-> r.blkno, sup |-> r.sup]
         IN tried(alloc_order(sup, st, order))

(* ret is the order granted, or the negative errno *)
buddy_alloc(sup, st, order) ==
    IF order < 0 \/ order >= SCOUTFS_BUDDY_ORDERS
    THEN [ret |-> -EINVAL, blkno |-> 0, sup |-> sup]
    ELSE buddy_alloc_loop(sup, st, order)

(* the block after the existing one of the pair *)
alloc_region_next(sup, st, order, existing, region) ==
    CASE region = REGION_PAIR ->
            [ret |-> 0, blkno |-> existing + 1, sup |-> sup]
      [] region = REGION_BM -> bitmap_alloc(sup, st)
      [] region = REGION_BUDDY -> buddy_alloc(sup, st, order)

alloc_region(sup, st, order, existing, region) ==
    CASE region = REGION_PAIR ->
            [ret |-> 0, blkno |-> Xor1(existing), sup |-> sup]
      [] region = REGION_BM -> bitmap_alloc(sup, st)
      [] region = REGION_BUDDY -> buddy_alloc(sup, st, order)

scoutfs_buddy_alloc(sup, st, order) ==
    alloc_region(sup, st, order, 0, REGION_BUDDY)

scoutfs_buddy_alloc_same(sup, st, order, existing) ==
    alloc_region(sup, st, order, existing, blkno_region(sup, existing))

(* the bit of the merged buddy stays set *)
RECURSIVE buddy_free_merge_keep(_, _, _)
buddy_free_merge_keep(ib, i, nr) ==
    IF i < SCOUTFS_BUDDY_ORDERS - 1 /\ test_buddy_bit(ib.bud, i, Xor1(nr))
    THEN buddy_free_merge_keep(ib, i + 1, nr \div 2)
    ELSE set_buddy_bit(ib, i, nr)

(* the freed extent is never merged with its buddy *)
buddy_free_merge_none(ib, i, nr) == set_buddy_bit(ib, i, nr)

(* the freed extent is merged with its buddy once and no further *)
buddy_free_merge_once(ib, i, nr) ==
    IF i < SCOUTFS_BUDDY_ORDERS - 1 /\ test_buddy_bit(ib.bud, i, Xor1(nr))
    THEN set_buddy_bit(clear_buddy_bit(ib, i, Xor1(nr)), i + 1, nr \div 2)
    ELSE set_buddy_bit(ib, i, nr)

(* buddy_free: merge with the free buddy, order after order *)
RECURSIVE buddy_free_merge(_, _, _)
buddy_free_merge(ib, i, nr) ==
    IF i < SCOUTFS_BUDDY_ORDERS - 1 /\ test_buddy_bit(ib.bud, i, Xor1(nr))
    THEN buddy_free_merge(clear_buddy_bit(ib, i, Xor1(nr)), i + 1, nr \div 2)
    ELSE set_buddy_bit(ib, i, nr)

(* the alignment of the block to its order is not checked *)
buddy_free_unaligned(sup, st, blkno, order) ==
    IF order < 0 \/ order >= SCOUTFS_BUDDY_ORDERS
    THEN [ret |-> -EINVAL, sup |-> sup]
    ELSE IF sup.buddy_ind_ref = 0 THEN [ret |-> -EIO, sup |-> sup]
    ELSE LET sl == indirect_slot(sup, blkno)
             merged(sup2, ib) ==
                [ret |-> 0,
                 sup |-> [sup2 EXCEPT
                            !.ind = [ib.ind EXCEPT
                                       !.slots[sl].free_orders =
                                          update_free_orders(ib.bud)],
                            !.bud[sl] = ib.bud]]
             freed(sup2) ==
                merged(sup2,
                       buddy_free_merge(slot_ib(sup2, sl), order,
                                        buddy_bit(sup, blkno) \div Pow2(order)))
             bud_dirtied(b) ==
                IF b.ret # 0 THEN [ret |-> b.ret, sup |-> b.sup]
                ELSE freed([b.sup EXCEPT !.ind.slots[sl].ref = b.blkno])
             ind_dirtied(sup1) ==
                bud_dirtied(block_dirty_ref_bm(sup1, st, sup1.ind.slots[sl].ref,
                                               st.ind.slots[sl].ref))
             dirtied(r) ==
                IF r.ret # 0 THEN [ret |-> r.ret, sup |-> r.sup]
                ELSE ind_dirtied([r.sup EXCEPT !.buddy_ind_ref = r.blkno])
         IN dirtied(block_dirty_ref_bm(sup, st, sup.buddy_ind_ref,
                                       st.buddy_ind_ref))

buddy_free(sup, st, blkno, order) ==
    IF order < 0 \/ order >= SCOUTFS_BUDDY_ORDERS
       \/ ~valid_order(sup, blkno, order)
    THEN [ret |-> -EINVAL, sup |-> sup]
    ELSE IF sup.buddy_ind_ref = 0 THEN [ret |-> -EIO, sup |-> sup]
    ELSE LET sl == indirect_slot(sup, blkno)
             merged(sup2, ib) ==
                [ret |-> 0,
                 sup |-> [sup2 EXCEPT
                            !.ind = [ib.ind EXCEPT
                                       !.slots[sl].free_orders =
                                          update_free_orders(ib.bud)],
                            !.bud[sl] = ib.bud]]
             freed(sup2) ==
                merged(sup2,
                       buddy_free_merge(slot_ib(sup2, sl), order,
                                        buddy_bit(sup, blkno) \div Pow2(order)))
             bud_dirtied(b) ==
                IF b.ret # 0 THEN [ret |-> b.ret, sup |-> b.sup]
                ELSE freed([b.sup EXCEPT !.ind.slots[sl].ref = b.blkno])
             ind_dirtied(sup1) ==
                bud_dirtied(block_dirty_ref_bm(sup1, st, sup1.ind.slots[sl].ref,
                                               st.ind.slots[sl].ref))
             dirtied(r) ==
                IF r.ret # 0 THEN [ret |-> r.ret, sup |-> r.sup]
                ELSE ind_dirtied([r.sup EXCEPT !.buddy_ind_ref = r.blkno])
         IN dirtied(block_dirty_ref_bm(sup, st, sup.buddy_ind_ref,
                                       st.buddy_ind_ref))

(* the buddy region is handled as the pair region is *)
scoutfs_buddy_free_skip(sup, st, blkno, order) ==
    CASE blkno_region(sup, blkno) = REGION_PAIR -> [ret |-> 0, sup |-> sup]
      [] blkno_region(sup, blkno) = REGION_BM -> bitmap_free(sup, st, blkno)
      [] blkno_region(sup, blkno) = REGION_BUDDY -> [ret |-> 0, sup |-> sup]

scoutfs_buddy_free(sup, st, blkno, order) ==
    CASE blkno_region(sup, blkno) = REGION_PAIR -> [ret |-> 0, sup |-> sup]
      [] blkno_region(sup, blkno) = REGION_BM -> bitmap_free(sup, st, blkno)
      [] blkno_region(sup, blkno) = REGION_BUDDY ->
            buddy_free(sup, st, blkno, order)

(* lowest set bit and floor(log2) of a positive number *)
RECURSIVE ffs64(_)
ffs64(x) == IF x % 2 = 1 THEN 0 ELSE 1 + ffs64(x \div 2)

RECURSIVE fls64(_)
fls64(x) == IF x = 0 THEN 0 ELSE 1 + fls64(x \div 2)

(* What __ffs64(0) can give, as far as min3_t(int, ...) tells the values    *)
(* apart: a negative int, or any order.                                    *)
FfsOfZero == {-1} \cup Orders

(* scoutfs_buddy_free_extent; bug is its BUG_ON(ret) *)
RECURSIVE scoutfs_buddy_free_extent(_, _, _, _, _)
scoutfs_buddy_free_extent(sup, st, blkno, count, ffs0) ==
    IF count = 0 THEN [bug |-> FALSE, sup |-> sup]
    ELSE LET bit == buddy_bit(st, blkno)
             freed(f, order) ==
                IF f.ret # 0 THEN [bug |-> TRUE, sup |-> f.sup]
                ELSE scoutfs_buddy_free_extent(f.sup, st, blkno + Pow2(order),
                                               count - Pow2(order), ffs0)
             sized(order) ==
                freed(scoutfs_buddy_free(sup, st, blkno, order), order)
         IN sized(Min(IF bit = 0 THEN ffs0 ELSE ffs64(bit),
                      Min(fls64(count) - 1, SCOUTFS_BUDDY_ORDERS - 1)))

(* ---------------------------------------------------------------------- *)
(* State.                                                                  *)
(* ---------------------------------------------------------------------- *)
VARIABLES
    super,             \* sbi->super and the blocks it references
    stable_super,      \* sbi->stable_super and the blocks it references
    file_alloc_blkno,  \* sbi->file_alloc_blkno
    file_alloc_count,  \* sbi->file_alloc_count
    owned,             \* blocks held by the callers of scoutfs_buddy_alloc
    bug,               \* a BUG_ON has fired
    last,              \* the call that returned last and what it returned
    calls,             \* the number of calls made so far
    bmap,              \* the block map items of the dirty btree
    stable_bmap,       \* the block map items of the committed btree
    task,              \* the locals of each writer inside map_writable_block
    mapped,            \* what map_writable_block returned in this transaction
    round,             \* the allocations of a caller that gives them all back
    buddy_mutex,       \* the threads that hold sbi->buddy_mutex
    file_alloc_lock,   \* the threads that hold sbi->file_alloc_lock
    thread,            \* where each thread is in the allocator's functions
    write              \* the page, the transaction and the writer in write_begin

vars == <<super, stable_super, file_alloc_blkno, file_alloc_count, owned,
          bug, last, calls, bmap, stable_bmap, task, mapped, round,
          buddy_mutex, file_alloc_lock, thread, write>>

(* the locks and the threads that take them step by step *)
locks == <<buddy_mutex, file_alloc_lock, thread>>

(* The writers.  Each writes the file of its own inode: the writers of one  *)
(* inode are serialized by its i_mutex and leave nothing behind between     *)
(* calls, so they behave as one.                                           *)
Tasks == {"t1", "t2"}
Iblocks == 0 .. MaxIblock

(* set_bmap_key: the inode and the number of the item of the logical block *)
set_bmap_key(t, iblock) == <<t, iblock \div Pow2(SCOUTFS_BLOCK_MAP_SHIFT)>>

BmapKeys == {set_bmap_key(t, iblock) : t \in Tasks, iblock \in Iblocks}

(* a missing item, and the item memset() leaves after the insertion *)
NoItem == <<>>
ZeroItem == [i \in 0 .. SCOUTFS_BLOCK_MAP_MASK |-> 0]

(* the locals of map_writable_block and of the alloc_file_block it calls *)
IdleTask ==
    [pc |-> "idle", iblock |-> 0, inserted |-> FALSE, old_blkno |-> 0,
     new_blkno |-> 0, alloc_blkno |-> 0, order |-> 0]

(* a thread outside the allocator: fn is the function it entered, back   *)
(* the place a nested call returns to                                      *)
IdleThread ==
    [pc |-> "idle", fn |-> "none", back |-> "idle", blkno |-> 0, order |-> 0,
     ret |-> 0, alloc_blkno |-> 0, afb_order |-> 0, afb_blkno |-> 0,
     afb_ret |-> 0]

(* the blocks of the extent of an order at blkno *)
Extent(blkno, order) == blkno .. (blkno + Pow2(order) - 1)

(* the device blocks the buddy allocator covers *)
BuddyRegion(sup) ==
    first_blkno(sup) ..
    (Min(sup.total_blocks,
         first_blkno(sup) + SCOUTFS_BUDDY_SLOTS * SCOUTFS_BUDDY_ORDER0_BITS) - 1)

(* a block is free in a view when its slot has no buddy block yet or a set *)
(* bit of some order covers it                                             *)
IsFree(sup, b) ==
    \/ sup.ind.slots[indirect_slot(sup, b)].ref = 0
    \/ test_buddy_bit_or_higher(sup.bud[indirect_slot(sup, b)], 0,
                                buddy_bit(sup, b))

FreeBlocks(sup) == {b \in BuddyRegion(sup) : IsFree(sup, b)}

(* ---------------------------------------------------------------------- *)
(* The volume as mkfs leaves it: the bitmap block, the indirect block and  *)
(* the buddy block of slot 0 exist, the other slots announce their free    *)
(* orders and get their buddy block on first use.                          *)
(* ---------------------------------------------------------------------- *)
ZeroBud == [bits |-> {}, order_counts |-> [i \in Orders |-> 0]]

MkfsGeometry ==
    [buddy_blocks |-> BuddyBlocks,
     total_blocks |-> SCOUTFS_BUDDY_BM_BLKNO + SCOUTFS_BUDDY_BM_NR + BuddyBlocks
                      + (SCOUTFS_BUDDY_SLOTS - 1) * SCOUTFS_BUDDY_ORDER0_BITS
                      + LastSlotBlocks]

MkfsSeed(ib, sl) == seed_bits(ib, slot_count(MkfsGeometry, sl))

MkfsSuper ==
    LET zero == [ind |-> [slots |-> [sl \in SlotIds |->
                                       [ref |-> 0, free_orders |-> {}]],
                          order_totals |-> [i \in Orders |-> 0]],
                 bud |-> ZeroBud]
        ib0 == MkfsSeed(zero, 0)
    IN [buddy_blocks |-> MkfsGeometry.buddy_blocks,
        total_blocks |-> MkfsGeometry.total_blocks,
        buddy_bm_ref |-> SCOUTFS_BUDDY_BM_BLKNO,
        bm |-> 2 .. (BuddyBlocks - 1),
        buddy_ind_ref |-> SCOUTFS_BUDDY_BM_BLKNO + SCOUTFS_BUDDY_BM_NR,
        ind |-> [slots |-> [sl \in SlotIds |->
                    IF sl = 0
                    THEN [ref |-> SCOUTFS_BUDDY_BM_BLKNO + SCOUTFS_BUDDY_BM_NR + 1,
                          free_orders |-> update_free_orders(ib0.bud)]
                    ELSE [ref |-> 0,
                          free_orders |->
                             update_free_orders(MkfsSeed(zero, sl).bud)]],
                 order_totals |-> ib0.ind.order_totals],
        bud |-> [sl \in SlotIds |-> IF sl = 0 THEN ib0.bud ELSE ZeroBud]]

NoCall == [op |-> "none", ret |-> 0, blkno |-> 0, order |-> 0]

(* no caller is in a round of allocations yet *)
NoRound == [phase |-> "idle", base |-> MkfsSuper, held |-> {}, allocs |-> 0]

(* a page of the page cache that was just created: a block is a page, so   *)
(* the page has one buffer                                                 *)
FreshPage == [uptodate |-> FALSE, has_buffers |-> FALSE, mapped |-> FALSE]

(* nobody is in scoutfs_write_begin; locked, refs and unlocks are the page *)
(* lock, the references the writer holds on the page at hand and the      *)
(* times the page was unlocked since it was grabbed; holds counts the     *)
(* transaction holds                                                       *)
IdleWrite ==
    [pc |-> "idle", aligned |-> FALSE, iblock |-> 0, ret |-> 0,
     have_page |-> FALSE, locked |-> FALSE, refs |-> 0, unlocks |-> 0,
     holds |-> 0, n |-> 0, mark |-> 0,
     page |-> [i \in Iblocks |-> FreshPage]]

Init ==
    /\ super = MkfsSuper
    /\ stable_super = MkfsSuper
    /\ file_alloc_blkno = 0
    /\ file_alloc_count = 0
    /\ owned = {}
    /\ bug = FALSE
    /\ last = NoCall
    /\ calls = 0
    /\ bmap = [k \in BmapKeys |-> NoItem]
    /\ stable_bmap = [k \in BmapKeys |-> NoItem]
    /\ task = [t \in Tasks |-> IdleTask]
    /\ mapped = [k \in Tasks \X Iblocks |-> 0]
    /\ round = NoRound
    /\ buddy_mutex = {}
    /\ file_alloc_lock = {}
    /\ thread = [t \in Tasks |-> IdleThread]
    /\ write = IdleWrite

(* every call counts against the budget of the behaviour *)
Call ==
    /\ ~bug
    /\ calls < MaxCalls
    /\ calls' = calls + 1

(* ---------------------------------------------------------------------- *)
(* The calls of the allocator's users.                                     *)
(* ---------------------------------------------------------------------- *)
BuddyAlloc(order) ==
    /\ Call
    /\ \E r \in {scoutfs_buddy_alloc(super, stable_super, order)} :
          /\ super' = r.sup
          /\ owned' = IF r.ret >= 0 THEN owned \cup Extent(r.blkno, r.ret)
                      ELSE owned
          /\ last' = [op |-> "alloc", ret |-> r.ret, blkno |-> r.blkno,
                      order |-> order]
    /\ UNCHANGED <<write, round, locks, stable_super, file_alloc_blkno, file_alloc_count, bug,
                   bmap, stable_bmap, task, mapped>>

(* a caller frees an aligned extent of blocks it holds *)
BuddyFree(blkno, order) ==
    /\ Call
    /\ valid_order(super, blkno, order)
    /\ Extent(blkno, order) \subseteq owned
    /\ \E f \in {scoutfs_buddy_free(super, stable_super, blkno, order)} :
          /\ super' = f.sup
          /\ owned' = IF f.ret = 0 THEN owned \ Extent(blkno, order) ELSE owned
          /\ last' = [op |-> "free", ret |-> f.ret, blkno |-> blkno,
                      order |-> order]
    /\ UNCHANGED <<write, round, locks, stable_super, file_alloc_blkno, file_alloc_count, bug,
                   bmap, stable_bmap, task, mapped>>

(* scoutfs_filerw_free_alloc *)
scoutfs_filerw_free_alloc(sup, st, blkno, count, ffs0) ==
    IF count # 0 THEN scoutfs_buddy_free_extent(sup, st, blkno, count, ffs0)
    ELSE [bug |-> FALSE, sup |-> sup]

(* The commit of the transaction: the reservoir goes back to the allocator *)
(* and the dirty super becomes the stable super.                           *)
Commit ==
    /\ Call
    /\ \A t \in Tasks : task[t].pc = "idle"
    /\ \E ffs0 \in FfsOfZero :
         \E f \in {scoutfs_filerw_free_alloc(super, stable_super,
                                             file_alloc_blkno, file_alloc_count,
                                             ffs0)} :
            /\ bug' = f.bug
            /\ super' = f.sup
            /\ stable_super' = IF f.bug THEN stable_super ELSE f.sup
            /\ stable_bmap' = IF f.bug THEN stable_bmap ELSE bmap
            /\ mapped' = IF f.bug THEN mapped
                         ELSE [k \in Tasks \X Iblocks |-> 0]
    /\ file_alloc_blkno' = 0
    /\ file_alloc_count' = 0
    /\ last' = [op |-> "commit", ret |-> 0, blkno |-> 0, order |-> 0]
    /\ UNCHANGED <<write, round, locks, owned, bmap, task>>

Next ==
    \/ \E order \in Orders : BuddyAlloc(order)
    \/ \E blkno \in owned, order \in Orders : BuddyFree(blkno, order)
    \/ Commit

Spec == Init /\ [][Next]_vars

(* ---------------------------------------------------------------------- *)
(* A caller that, in some state the allocator has reached, makes a run of  *)
(* successful scoutfs_buddy_alloc calls and then gives every extent back   *)
(* with scoutfs_buddy_free at the order it was granted, in any order.      *)
(* ---------------------------------------------------------------------- *)
RoundAlloc(order) ==
    /\ Call
    /\ round.phase \in {"idle", "alloc"}
    /\ \E r \in {scoutfs_buddy_alloc(super, stable_super, order)} :
          /\ r.ret >= 0
          /\ super' = r.sup
          /\ owned' = owned \cup Extent(r.blkno, r.ret)
          /\ last' = [op |-> "alloc", ret |-> r.ret, blkno |-> r.blkno,
                      order |-> order]
          /\ round' = [phase |-> "alloc",
                       base |-> IF round.phase = "idle" THEN super
                                ELSE round.base,
                       held |-> round.held \cup {<<r.blkno, r.ret>>},
                       allocs |-> round.allocs + 1]
    /\ UNCHANGED <<write, locks, stable_super, file_alloc_blkno, file_alloc_count,
                   bug, bmap, stable_bmap, task, mapped>>

RoundFree(blkno, order) ==
    /\ Call
    /\ round.phase \in {"alloc", "free"}
    /\ <<blkno, order>> \in round.held
    /\ \E f \in {scoutfs_buddy_free(super, stable_super, blkno, order)} :
          /\ f.ret = 0
          /\ super' = f.sup
          /\ owned' = owned \ Extent(blkno, order)
          /\ last' = [op |-> "free", ret |-> f.ret, blkno |-> blkno,
                      order |-> order]
    /\ round' = [round EXCEPT
                    !.phase = IF round.held = {<<blkno, order>>} THEN "done"
                              ELSE "free",
                    !.held = @ \ {<<blkno, order>>}]
    /\ UNCHANGED <<write, locks, stable_super, file_alloc_blkno, file_alloc_count,
                   bug, bmap, stable_bmap, task, mapped>>

(* the calls of the other callers come before the round *)
RoundIdle == round.phase = "idle"

NextRound ==
    \/ \E order \in Orders : RoundIdle /\ BuddyAlloc(order)
    \/ \E blkno \in owned, order \in Orders :
          RoundIdle /\ BuddyFree(blkno, order)
    \/ RoundIdle /\ Commit
    \/ \E order \in Orders : RoundAlloc(order)
    \/ \E e \in round.held : RoundFree(e[1], e[2])

SpecRound == Init /\ [][NextRound]_vars

(* ---------------------------------------------------------------------- *)
(* A caller that gives a run of blocks it holds back with                  *)
(* scoutfs_buddy_free_extent, as scoutfs_filerw_free_alloc does with what  *)
(* is left of the reservoir.                                               *)
(* ---------------------------------------------------------------------- *)
BuddyFreeExtent(blkno, count) ==
    /\ Call
    /\ blkno .. (blkno + count - 1) \subseteq owned
    /\ \E ffs0 \in FfsOfZero :
         \E f \in {scoutfs_buddy_free_extent(super, stable_super, blkno, count,
                                             ffs0)} :
            /\ bug' = f.bug
            /\ super' = f.sup
            /\ owned' = IF f.bug THEN owned
                        ELSE owned \ (blkno .. (blkno + count - 1))
            /\ last' = [op |-> "free_extent", ret |-> 0, blkno |-> blkno,
                        order |-> 0, count |-> count]
    /\ UNCHANGED <<write, round, locks, stable_super, file_alloc_blkno, file_alloc_count,
                   bmap, stable_bmap, task, mapped>>

NextExtent ==
    \/ \E order \in Orders : BuddyAlloc(order)
    \/ \E blkno \in owned, count \in 1 .. Cardinality(owned) :
          BuddyFreeExtent(blkno, count)
    \/ Commit

SpecExtent == Init /\ [][NextExtent]_vars

(* ---------------------------------------------------------------------- *)
(* The bitmap allocator under the block layer: scoutfs_buddy_alloc_same of *)
(* a block of the bitmap region allocates the copy of a stable block and   *)
(* scoutfs_buddy_free gives a block of the region back.                    *)
(* ---------------------------------------------------------------------- *)
BmRegion(sup) ==
    (SCOUTFS_BUDDY_BM_BLKNO + SCOUTFS_BUDDY_BM_NR) .. (first_blkno(sup) - 1)

BmAllocSame(existing) ==
    /\ Call
    /\ \E r \in {scoutfs_buddy_alloc_same(super, stable_super, 0, existing)} :
          /\ super' = r.sup
          /\ owned' = IF r.ret = 0 THEN owned \cup {r.blkno} ELSE owned
          /\ last' = [op |-> "bm_alloc", ret |-> r.ret, blkno |-> r.blkno,
                      order |-> 0]
    /\ UNCHANGED <<write, round, locks, stable_super, file_alloc_blkno, file_alloc_count, bug,
                   bmap, stable_bmap, task, mapped>>

BmFree(blkno) ==
    /\ Call
    /\ blkno \in owned
    /\ \E f \in {scoutfs_buddy_free(super, stable_super, blkno, 0)} :
          /\ super' = f.sup
          /\ owned' = IF f.ret = 0 THEN owned \ {blkno} ELSE owned
          /\ last' = [op |-> "bm_free", ret |-> f.ret, blkno |-> blkno,
                      order |-> 0]
    /\ UNCHANGED <<write, round, locks, stable_super, file_alloc_blkno, file_alloc_count, bug,
                   bmap, stable_bmap, task, mapped>>

NextBm ==
    \/ \E existing \in BmRegion(super) : BmAllocSame(existing)
    \/ \E blkno \in owned : BmFree(blkno)
    \/ Commit

SpecBm == Init /\ [][NextBm]_vars

(* ---------------------------------------------------------------------- *)
(* The file block mapper (filerw.c).                                       *)
(* ---------------------------------------------------------------------- *)
(* every block passes for free in the stable view *)
scoutfs_buddy_was_free_always(sup, st, blkno, order) ==
    IF sup.buddy_bm_ref = 0 \/ st.buddy_bm_ref = 0 THEN -EIO ELSE 1

(* the dirty super is read instead of the stable one *)
scoutfs_buddy_was_free_dirty(sup, st, blkno, order) ==
    IF sup.buddy_bm_ref = 0 \/ st.buddy_bm_ref = 0 THEN -EIO
    ELSE IF sup.ind.slots[indirect_slot(sup, blkno)].ref = 0 THEN 1
    ELSE IF test_buddy_bit_or_higher(sup.bud[indirect_slot(sup, blkno)], order,
                                     buddy_bit(sup, blkno) \div Pow2(order))
    THEN 1 ELSE 0

(* only the bit of the order itself is tested *)
scoutfs_buddy_was_free_bit(sup, st, blkno, order) ==
    IF sup.buddy_bm_ref = 0 \/ st.buddy_bm_ref = 0 THEN -EIO
    ELSE IF st.ind.slots[indirect_slot(st, blkno)].ref = 0 THEN 1
    ELSE IF test_buddy_bit(st.bud[indirect_slot(st, blkno)], order,
                           buddy_bit(st, blkno) \div Pow2(order))
    THEN 1 ELSE 0

scoutfs_buddy_was_free(sup, st, blkno, order) ==
    IF sup.buddy_bm_ref = 0 \/ st.buddy_bm_ref = 0 THEN -EIO
    ELSE IF st.ind.slots[indirect_slot(st, blkno)].ref = 0 THEN 1
    ELSE IF test_buddy_bit_or_higher(st.bud[indirect_slot(st, blkno)], order,
                                     buddy_bit(st, blkno) \div Pow2(order))
    THEN 1 ELSE 0

(* sbi->file_alloc_blkno and sbi->file_alloc_count *)
FileAlloc == [blkno |-> file_alloc_blkno, count |-> file_alloc_count]

(* the count of the reservoir is the order, not its number of blocks *)
file_alloc_install_order(fa, alloc_blkno, order) ==
    IF fa.count = 0
    THEN [fa |-> [blkno |-> alloc_blkno, count |-> order], order |-> -1]
    ELSE [fa |-> fa, order |-> order]

(* alloc_file_block: the allocated extent becomes the reservoir if the     *)
(* reservoir is still empty                                                *)
file_alloc_install(fa, alloc_blkno, order) ==
    IF fa.count = 0
    THEN [fa |-> [blkno |-> alloc_blkno, count |-> Pow2(order)], order |-> -1]
    ELSE [fa |-> fa, order |-> order]

(* the head of the reservoir does not advance *)
file_alloc_pop_stay(fa) ==
    IF fa.count # 0
    THEN [ret |-> 0, blkno |-> fa.blkno,
          fa |-> [blkno |-> fa.blkno, count |-> fa.count - 1]]
    ELSE [ret |-> -ENOSPC, blkno |-> 0, fa |-> fa]

(* alloc_file_block: the first block of the reservoir *)
file_alloc_pop(fa) ==
    IF fa.count # 0
    THEN [ret |-> 0, blkno |-> fa.blkno,
          fa |-> [blkno |-> fa.blkno + 1, count |-> fa.count - 1]]
    ELSE [ret |-> -ENOSPC, blkno |-> 0, fa |-> fa]

(* the block is not put back *)
return_file_block_drop(fa, blkno) ==
    IF fa.count # 0 /\ fa.blkno # blkno + 1 THEN [bug |-> TRUE, fa |-> fa]
    ELSE [bug |-> FALSE, fa |-> fa]

(* the head of the reservoir does not step back *)
return_file_block_tail(fa, blkno) ==
    IF fa.count # 0 /\ fa.blkno # blkno + 1 THEN [bug |-> TRUE, fa |-> fa]
    ELSE [bug |-> FALSE,
          fa |-> [blkno |-> IF fa.count = 0 THEN blkno + 1 ELSE fa.blkno,
                  count |-> fa.count + 1]]

(* bug is the BUG_ON *)
return_file_block(fa, blkno) ==
    IF fa.count # 0 /\ fa.blkno # blkno + 1 THEN [bug |-> TRUE, fa |-> fa]
    ELSE [bug |-> FALSE,
          fa |-> [blkno |-> (IF fa.count = 0 THEN blkno + 1 ELSE fa.blkno) - 1,
                  count |-> fa.count + 1]]

(* map_writable_block returns *)
MapReturn(t, iblock, old_blkno, ret, blkno) ==
    /\ last' = [op |-> "map", ret |-> ret, blkno |-> blkno, order |-> 0,
                who |-> t, iblock |-> iblock, old |-> old_blkno]
    /\ task' = [task EXCEPT ![t] = IdleTask]
    /\ mapped' = IF ret = 0 THEN [mapped EXCEPT ![<<t, iblock>>] = blkno]
                 ELSE mapped

(* map_writable_block from its out label with an error: the new block goes *)
(* back to the reservoir and an inserted item is deleted                   *)
MapError(t, ret) ==
    \E rf \in {IF task[t].new_blkno # 0
               THEN return_file_block(FileAlloc, task[t].new_blkno)
               ELSE [bug |-> FALSE, fa |-> FileAlloc]} :
        /\ bug' = rf.bug
        /\ file_alloc_blkno' = rf.fa.blkno
        /\ file_alloc_count' = rf.fa.count
        /\ IF rf.bug THEN UNCHANGED <<bmap, task, last, mapped>>
           ELSE /\ bmap' = IF task[t].inserted
                           THEN [bmap EXCEPT
                                   ![set_bmap_key(t, task[t].iblock)] = NoItem]
                           ELSE bmap
                /\ MapReturn(t, task[t].iblock, task[t].old_blkno, ret, 0)

(* map_writable_block stores the new block in the item and returns it *)
MapStore(t) ==
    /\ bmap' = [bmap EXCEPT
                  ![set_bmap_key(t, task[t].iblock)]
                     [task[t].iblock % SCOUTFS_BLOCK_MAP_COUNT] =
                        task[t].new_blkno]
    /\ MapReturn(t, task[t].iblock, task[t].old_blkno, 0, task[t].new_blkno)

(* map_writable_block up to the call of alloc_file_block: the writable     *)
(* item, its old block, and the old block again if this transaction        *)
(* allocated it                                                            *)
MapStart(t, iblock) ==
    /\ ~bug
    /\ calls < MaxFileCalls
    /\ calls' = calls + 1
    /\ task[t].pc = "idle"
    /\ LET key == set_bmap_key(t, iblock)
           inserted == bmap[key] = NoItem
           item == IF inserted THEN ZeroItem ELSE bmap[key]
           old_blkno == item[iblock % SCOUTFS_BLOCK_MAP_COUNT]
           was_free == IF old_blkno # 0
                       THEN scoutfs_buddy_was_free(super, stable_super,
                                                   old_blkno, 0)
                       ELSE 0
       IN IF was_free < 0
          THEN MapReturn(t, iblock, old_blkno, was_free, 0) /\ UNCHANGED bmap
          ELSE IF was_free > 0
          THEN MapReturn(t, iblock, old_blkno, 0, old_blkno)
               /\ UNCHANGED bmap
          ELSE /\ bmap' = [bmap EXCEPT ![key] = item]
               /\ task' = [task EXCEPT
                             ![t] = [IdleTask EXCEPT !.pc = "afb_lock",
                                                     !.iblock = iblock,
                                                     !.inserted = inserted,
                                                     !.old_blkno = old_blkno]]
               /\ UNCHANGED <<last, mapped>>
    /\ UNCHANGED <<write, round, locks, super, stable_super, file_alloc_blkno, file_alloc_count,
                   owned, bug, stable_bmap>>

(* alloc_file_block under the spin lock: a block of the reservoir, or on   *)
(* to the buddy allocator if the reservoir is empty                        *)
AfbLock(t) ==
    /\ ~bug
    /\ task[t].pc = "afb_lock"
    /\ IF file_alloc_count = 0
       THEN /\ task' = [task EXCEPT ![t].pc = "afb_buddy"]
            /\ UNCHANGED <<file_alloc_blkno, file_alloc_count>>
       ELSE \E p \in {file_alloc_pop(FileAlloc)} :
               /\ file_alloc_blkno' = p.fa.blkno
               /\ file_alloc_count' = p.fa.count
               /\ task' = [task EXCEPT ![t].pc = "mw_free",
                                       ![t].new_blkno = p.blkno]
    /\ UNCHANGED <<write, round, locks, super, stable_super, owned, bug, last, calls, bmap,
                   stable_bmap, mapped>>

(* alloc_file_block asks the buddy allocator for the largest extent *)
AfbBuddy(t) ==
    /\ ~bug
    /\ task[t].pc = "afb_buddy"
    /\ \E r \in {scoutfs_buddy_alloc(super, stable_super,
                                     SCOUTFS_BUDDY_ORDERS - 1)} :
          /\ super' = r.sup
          /\ IF r.ret < 0 THEN MapError(t, r.ret)
             ELSE /\ task' = [task EXCEPT ![t].pc = "afb_relock",
                                          ![t].alloc_blkno = r.blkno,
                                          ![t].order = r.ret]
                  /\ UNCHANGED <<file_alloc_blkno, file_alloc_count, bug, last,
                                 bmap, mapped>>
    /\ UNCHANGED <<write, round, locks, stable_super, owned, calls, stable_bmap>>

(* alloc_file_block under the spin lock again: the extent becomes the      *)
(* reservoir if that is still empty, and a block of the reservoir          *)
AfbRelock(t) ==
    /\ ~bug
    /\ task[t].pc = "afb_relock"
    /\ \E ins \in {file_alloc_install(FileAlloc, task[t].alloc_blkno,
                                      task[t].order)} :
       \E p \in {file_alloc_pop(ins.fa)} :
          /\ file_alloc_blkno' = p.fa.blkno
          /\ file_alloc_count' = p.fa.count
          /\ task' = [task EXCEPT
                        ![t].pc = IF ins.order > 0 THEN "afb_surplus"
                                  ELSE "mw_free",
                        ![t].new_blkno = p.blkno,
                        ![t].alloc_blkno = IF ins.order > 0 THEN @ ELSE 0,
                        ![t].order = IF ins.order > 0 THEN @ ELSE 0]
    /\ UNCHANGED <<write, round, locks, super, stable_super, owned, bug, last, calls, bmap,
                   stable_bmap, mapped>>

(* alloc_file_block frees the extent it did not need, if (order > 0) *)
AfbSurplus(t) ==
    /\ ~bug
    /\ task[t].pc = "afb_surplus"
    /\ super' = scoutfs_buddy_free(super, stable_super, task[t].alloc_blkno,
                                   task[t].order).sup
    /\ task' = [task EXCEPT ![t].pc = "mw_free", ![t].alloc_blkno = 0,
                            ![t].order = 0]
    /\ UNCHANGED <<write, round, locks, stable_super, file_alloc_blkno, file_alloc_count, owned,
                   bug, last, calls, bmap, stable_bmap, mapped>>

(* what the read of the indirect block in buddy_free can come to *)
BlockReadErrors == {0, -EIO}

(* map_writable_block after alloc_file_block: the old block is freed and   *)
(* the new one stored                                                      *)
MwFree(t) ==
    /\ ~bug
    /\ task[t].pc = "mw_free"
    /\ IF task[t].new_blkno = 0
       THEN MapError(t, -ENOSPC) /\ UNCHANGED super
       ELSE IF task[t].old_blkno = 0
       THEN /\ MapStore(t)
            /\ UNCHANGED <<super, file_alloc_blkno, file_alloc_count, bug>>
       ELSE \E err \in BlockReadErrors :
            \E f \in {IF err # 0 THEN [ret |-> err, sup |-> super]
                      ELSE scoutfs_buddy_free(super, stable_super,
                                              task[t].old_blkno, 0)} :
               /\ super' = f.sup
               /\ IF f.ret # 0 THEN MapError(t, f.ret)
                  ELSE /\ MapStore(t)
                       /\ UNCHANGED <<file_alloc_blkno, file_alloc_count, bug>>
    /\ UNCHANGED <<write, round, locks, stable_super, owned, calls, stable_bmap>>

NextFile ==
    \/ \E t \in Tasks : \E iblock \in Iblocks : MapStart(t, iblock)
    \/ \E t \in Tasks : AfbLock(t)
    \/ \E t \in Tasks : AfbBuddy(t)
    \/ \E t \in Tasks : AfbRelock(t)
    \/ \E t \in Tasks : AfbSurplus(t)
    \/ \E t \in Tasks : MwFree(t)
    \/ Commit

SpecFile == Init /\ [][NextFile]_vars

(* ---------------------------------------------------------------------- *)
(* The readers of the block map (contig_mapped_blocks).                    *)
(* ---------------------------------------------------------------------- *)
(* contig_mapped_blocks: the while loop from entry i of the item on *)
RECURSIVE contig_count(_, _)
contig_count(item, i) ==
    IF i < SCOUTFS_BLOCK_MAP_COUNT /\ item[i] # 0
    THEN 1 + contig_count(item, i + 1)
    ELSE 0

(* the count starts at the first entry of the item *)
contig_mapped_blocks_first(map, t, iblock) ==
    IF map[set_bmap_key(t, iblock)] = NoItem THEN [ret |-> 0, blkno |-> 0]
    ELSE [ret |-> contig_count(map[set_bmap_key(t, iblock)], 0),
          blkno |-> map[set_bmap_key(t, iblock)]
                       [iblock % SCOUTFS_BLOCK_MAP_COUNT]]

(* contig_mapped_blocks: ret and *blkno; a missing item is -ENOENT from   *)
(* scoutfs_btree_lookup                                                    *)
contig_mapped_blocks(map, t, iblock) ==
    IF map[set_bmap_key(t, iblock)] = NoItem THEN [ret |-> 0, blkno |-> 0]
    ELSE [ret |-> contig_count(map[set_bmap_key(t, iblock)],
                               iblock % SCOUTFS_BLOCK_MAP_COUNT),
          blkno |-> map[set_bmap_key(t, iblock)]
                       [iblock % SCOUTFS_BLOCK_MAP_COUNT]]

(* a reader of the file of writer t looks a logical block up *)
ContigRead(t, iblock) ==
    /\ ~bug
    /\ \E c \in {contig_mapped_blocks(bmap, t, iblock)} :
          last' = [op |-> "contig", ret |-> c.ret, blkno |-> c.blkno,
                   order |-> 0, who |-> t, iblock |-> iblock]
    /\ UNCHANGED <<write, round, locks, super, stable_super, file_alloc_blkno,
                   file_alloc_count, owned, bug, calls, bmap, stable_bmap,
                   task, mapped>>

(* the writers make few calls where readers look on *)
ReadCall == calls < MaxReadCalls

NextRead ==
    \/ \E t \in Tasks : \E iblock \in Iblocks :
          ReadCall /\ MapStart(t, iblock)
    \/ \E t \in Tasks : AfbLock(t)
    \/ \E t \in Tasks : AfbBuddy(t)
    \/ \E t \in Tasks : AfbRelock(t)
    \/ \E t \in Tasks : AfbSurplus(t)
    \/ \E t \in Tasks : MwFree(t)
    \/ ReadCall /\ Commit
    \/ \E t \in Tasks : \E iblock \in Iblocks : ContigRead(t, iblock)

SpecRead == Init /\ [][NextRead]_vars

(* ---------------------------------------------------------------------- *)
(* A caller asks scoutfs_buddy_was_free about any block of the device and  *)
(* any order, at any point between the calls of the allocator.             *)
(* ---------------------------------------------------------------------- *)
BuddyWasFree(blkno, order) ==
    /\ ~bug
    /\ \E ret \in {scoutfs_buddy_was_free(super, stable_super, blkno, order)} :
          last' = [op |-> "was_free", ret |-> ret, blkno |-> blkno,
                   order |-> order]
    /\ UNCHANGED <<write, round, locks, super, stable_super, file_alloc_blkno,
                   file_alloc_count, owned, bug, calls, bmap, stable_bmap,
                   task, mapped>>

QueryCall == calls < MaxQueryCalls

NextQuery ==
    \/ \E order \in Orders : QueryCall /\ BuddyAlloc(order)
    \/ \E blkno \in owned, order \in Orders :
          QueryCall /\ BuddyFree(blkno, order)
    \/ QueryCall /\ Commit
    \/ \E blkno \in BuddyRegion(stable_super), order \in Orders :
          BuddyWasFree(blkno, order)

SpecQuery == Init /\ [][NextQuery]_vars

(* ---------------------------------------------------------------------- *)
(* The functions of the allocator statement by statement, as far as the    *)
(* locks go: a thread enters a function, takes sbi->buddy_mutex, works on  *)
(* the blocks, releases the mutex and returns.  A result is the thread,    *)
(* the holders of the mutex and the dirty super after the step; wait says  *)
(* that the thread has to wait for the mutex.                              *)
(* ---------------------------------------------------------------------- *)
thread_return(th, ret, blkno) ==
    [th EXCEPT !.pc = th.back, !.ret = ret, !.blkno = blkno]

(* buddy_alloc *)
buddy_alloc_step(t, th, mutex, sup, st) ==
    LET looped(r) ==
           [th |-> [th EXCEPT !.pc = "ba_mutex_unlock", !.ret = r.ret,
                              !.blkno = r.blkno],
            mutex |-> mutex, sup |-> r.sup, wait |-> FALSE]
    IN CASE th.pc = "ba_enter" ->
               IF th.order < 0 \/ th.order >= SCOUTFS_BUDDY_ORDERS
               THEN [th |-> thread_return(th, -EINVAL, 0), mutex |-> mutex,
                     sup |-> sup, wait |-> FALSE]
               ELSE [th |-> [th EXCEPT !.pc = "ba_mutex_lock"],
                     mutex |-> mutex, sup |-> sup, wait |-> FALSE]
         [] th.pc = "ba_mutex_lock" ->
               [th |-> [th EXCEPT !.pc = "ba_loop"], mutex |-> mutex \cup {t},
                sup |-> sup, wait |-> mutex # {}]
         [] th.pc = "ba_loop" -> looped(buddy_alloc_loop(sup, st, th.order))
         [] th.pc = "ba_mutex_unlock" ->
               [th |-> thread_return(th, th.ret, th.blkno),
                mutex |-> mutex \ {t}, sup |-> sup, wait |-> FALSE]

(* an error of the block layer leaves by return, the mutex still held *)
buddy_free_step_leave(t, th, mutex, sup, st, err) ==
    LET freed(f) ==
           [th |-> [th EXCEPT !.pc = "bf_mutex_unlock", !.ret = f.ret],
            mutex |-> mutex, sup |-> f.sup, wait |-> FALSE]
    IN CASE th.pc = "bf_enter" ->
               IF th.order < 0 \/ th.order >= SCOUTFS_BUDDY_ORDERS
                  \/ ~valid_order(sup, th.blkno, th.order)
               THEN [th |-> thread_return(th, -EINVAL, th.blkno),
                     mutex |-> mutex, sup |-> sup, wait |-> FALSE]
               ELSE [th |-> [th EXCEPT !.pc = "bf_mutex_lock"],
                     mutex |-> mutex, sup |-> sup, wait |-> FALSE]
         [] th.pc = "bf_mutex_lock" ->
               [th |-> [th EXCEPT !.pc = "bf_merge"], mutex |-> mutex \cup {t},
                sup |-> sup, wait |-> mutex # {}]
         [] th.pc = "bf_merge" ->
               IF err # 0
               THEN [th |-> thread_return(th, err, th.blkno),
                     mutex |-> mutex, sup |-> sup, wait |-> FALSE]
               ELSE freed(buddy_free(sup, st, th.blkno, th.order))
         [] th.pc = "bf_mutex_unlock" ->
               [th |-> thread_return(th, th.ret, th.blkno),
                mutex |-> mutex \ {t}, sup |-> sup, wait |-> FALSE]

(* buddy_free; err is what scoutfs_block_dirty_ref of the indirect block   *)
(* comes to                                                                *)
buddy_free_step(t, th, mutex, sup, st, err) ==
    LET freed(f) ==
           [th |-> [th EXCEPT !.pc = "bf_mutex_unlock", !.ret = f.ret],
            mutex |-> mutex, sup |-> f.sup, wait |-> FALSE]
    IN CASE th.pc = "bf_enter" ->
               IF th.order < 0 \/ th.order >= SCOUTFS_BUDDY_ORDERS
                  \/ ~valid_order(sup, th.blkno, th.order)
               THEN [th |-> thread_return(th, -EINVAL, th.blkno),
                     mutex |-> mutex, sup |-> sup, wait |-> FALSE]
               ELSE [th |-> [th EXCEPT !.pc = "bf_mutex_lock"],
                     mutex |-> mutex, sup |-> sup, wait |-> FALSE]
         [] th.pc = "bf_mutex_lock" ->
               [th |-> [th EXCEPT !.pc = "bf_merge"], mutex |-> mutex \cup {t},
                sup |-> sup, wait |-> mutex # {}]
         [] th.pc = "bf_merge" ->
               IF err # 0
               THEN [th |-> [th EXCEPT !.pc = "bf_mutex_unlock", !.ret = err],
                     mutex |-> mutex, sup |-> sup, wait |-> FALSE]
               ELSE freed(buddy_free(sup, st, th.blkno, th.order))
         [] th.pc = "bf_mutex_unlock" ->
               [th |-> thread_return(th, th.ret, th.blkno),
                mutex |-> mutex \ {t}, sup |-> sup, wait |-> FALSE]

(* scoutfs_buddy_was_free; err is what scoutfs_block_read_ref of the       *)
(* stable indirect block comes to                                          *)
was_free_step(t, th, mutex, sup, st, err) ==
    CASE th.pc = "wf_enter" ->
            IF sup.buddy_bm_ref = 0 \/ st.buddy_bm_ref = 0
            THEN [th |-> thread_return(th, -EIO, th.blkno), mutex |-> mutex,
                  sup |-> sup, wait |-> FALSE]
            ELSE [th |-> [th EXCEPT !.pc = "wf_mutex_lock"],
                  mutex |-> mutex, sup |-> sup, wait |-> FALSE]
      [] th.pc = "wf_mutex_lock" ->
            [th |-> [th EXCEPT !.pc = "wf_read"], mutex |-> mutex \cup {t},
             sup |-> sup, wait |-> mutex # {}]
      [] th.pc = "wf_read" ->
            [th |-> [th EXCEPT
                       !.pc = "wf_mutex_unlock",
                       !.ret = IF err # 0 THEN err
                               ELSE scoutfs_buddy_was_free(sup, st, th.blkno,
                                                           th.order)],
             mutex |-> mutex, sup |-> sup, wait |-> FALSE]
      [] th.pc = "wf_mutex_unlock" ->
            [th |-> thread_return(th, th.ret, th.blkno),
             mutex |-> mutex \ {t}, sup |-> sup, wait |-> FALSE]

(* the places of a thread inside the three functions *)
BuddyAllocPcs == {"ba_enter", "ba_mutex_lock", "ba_loop", "ba_mutex_unlock"}
BuddyFreePcs == {"bf_enter", "bf_mutex_lock", "bf_merge", "bf_mutex_unlock"}
WasFreePcs == {"wf_enter", "wf_mutex_lock", "wf_read", "wf_mutex_unlock"}

(* the orders a caller can pass, those the functions refuse among them *)
CallOrders == -1 .. SCOUTFS_BUDDY_ORDERS

(* a thread calls one of the functions *)
ThreadCall(t, fn, pc, blkno, order) ==
    /\ ~bug
    /\ calls' = calls + 1
    /\ thread[t].pc = "idle"
    /\ thread' = [thread EXCEPT ![t] = [IdleThread EXCEPT !.pc = pc, !.fn = fn,
                                                         !.blkno = blkno,
                                                         !.order = order]]

(* the function a thread called has returned: the caller holds the extent  *)
(* scoutfs_buddy_alloc gave it and no longer the one it freed              *)
ThreadReturn(t, th) ==
    /\ thread' = [thread EXCEPT ![t] = IdleThread]
    /\ last' = [op |-> th.fn, ret |-> th.ret, blkno |-> th.blkno,
                order |-> th.order, who |-> t]
    /\ owned' = IF th.fn = "alloc" /\ th.ret >= 0
                THEN owned \cup Extent(th.blkno, th.ret)
                ELSE IF th.fn = "alloc_file_block" /\ th.ret = 0
                THEN owned \cup {th.blkno}
                ELSE IF th.fn = "free" /\ th.ret # 0 /\ th.ret # -EINVAL
                THEN owned \cup Extent(th.blkno, th.order)
                ELSE owned

(* a thread takes the step s of a function of the buddy allocator *)
BuddyStep(t, s) ==
    /\ ~bug
    /\ ~s.wait
    /\ super' = s.sup
    /\ buddy_mutex' = s.mutex
    /\ IF s.th.pc = "idle" THEN ThreadReturn(t, s.th)
       ELSE /\ thread' = [thread EXCEPT ![t] = s.th]
            /\ UNCHANGED <<last, owned>>
    /\ UNCHANGED <<write, round, stable_super, file_alloc_blkno, file_alloc_count,
                   file_alloc_lock, bug, calls, bmap, stable_bmap, task,
                   mapped>>

LockAllocCall(t, order) ==
    /\ ThreadCall(t, "alloc", "ba_enter", 0, order)
    /\ UNCHANGED <<write, round, super, stable_super, file_alloc_blkno,
                   file_alloc_count, owned, bug, last, bmap, stable_bmap,
                   task, mapped, buddy_mutex, file_alloc_lock>>

(* the caller gives up an extent it holds, or passes an order or a block   *)
(* that buddy_free refuses                                                 *)
LockFreeCall(t, blkno, order) ==
    /\ (order \in Orders /\ valid_order(super, blkno, order))
          => Extent(blkno, order) \subseteq owned
    /\ ThreadCall(t, "free", "bf_enter", blkno, order)
    /\ owned' = IF order \in Orders /\ valid_order(super, blkno, order)
                THEN owned \ Extent(blkno, order) ELSE owned
    /\ UNCHANGED <<write, round, super, stable_super, file_alloc_blkno,
                   file_alloc_count, bug, last, bmap, stable_bmap, task,
                   mapped, buddy_mutex, file_alloc_lock>>

LockWasFreeCall(t, blkno, order) ==
    /\ ThreadCall(t, "was_free", "wf_enter", blkno, order)
    /\ UNCHANGED <<write, round, super, stable_super, file_alloc_blkno,
                   file_alloc_count, owned, bug, last, bmap, stable_bmap,
                   task, mapped, buddy_mutex, file_alloc_lock>>

BuddyAllocStep(t) ==
    /\ thread[t].pc \in BuddyAllocPcs
    /\ \E s \in {buddy_alloc_step(t, thread[t], buddy_mutex, super,
                                  stable_super)} : BuddyStep(t, s)

BuddyFreeStep(t) ==
    /\ thread[t].pc \in BuddyFreePcs
    /\ \E err \in IF thread[t].pc = "bf_merge" THEN BlockReadErrors ELSE {0} :
       \E s \in {buddy_free_step(t, thread[t], buddy_mutex, super,
                                 stable_super, err)} : BuddyStep(t, s)

WasFreeStep(t) ==
    /\ thread[t].pc \in WasFreePcs
    /\ \E err \in IF thread[t].pc = "wf_read" THEN BlockReadErrors ELSE {0} :
       \E s \in {was_free_step(t, thread[t], buddy_mutex, super,
                               stable_super, err)} : BuddyStep(t, s)

LockCall == calls < MaxLockCalls

NextMutex ==
    \/ \E t \in Tasks, order \in CallOrders :
          LockCall /\ LockAllocCall(t, order)
    \/ \E t \in Tasks, blkno \in owned, order \in CallOrders :
          LockCall /\ LockFreeCall(t, blkno, order)
    \/ \E t \in Tasks, blkno \in owned :
          LockCall /\ LockWasFreeCall(t, blkno, 0)
    \/ \E t \in Tasks : BuddyAllocStep(t)
    \/ \E t \in Tasks : BuddyFreeStep(t)
    \/ \E t \in Tasks : WasFreeStep(t)

SpecMutex == Init /\ [][NextMutex]_vars

(* ---------------------------------------------------------------------- *)
(* alloc_file_block and return_file_block statement by statement, as far   *)
(* as sbi->file_alloc_lock goes.  A result is the thread, the holders of   *)
(* the spin lock, the reservoir and the BUG_ON after the step; wait says   *)
(* that the thread spins for the lock.  scoutfs_buddy_alloc and            *)
(* scoutfs_buddy_free are calls into the steps of buddy_alloc and          *)
(* buddy_free that come back to th.back.                                   *)
(* ---------------------------------------------------------------------- *)
(* the lock stays held over the call of scoutfs_buddy_alloc *)
alloc_file_block_step_held(t, th, lock, fa) ==
    LET step(th1, lock1, fa1, wait) ==
           [th |-> th1, lock |-> lock1, fa |-> fa1, bug |-> FALSE,
            wait |-> wait]
        installed(ins) ==
           step([th EXCEPT !.pc = "afb_pop", !.afb_order = ins.order],
                lock, ins.fa, FALSE)
        popped(p) ==
           step([th EXCEPT !.pc = "afb_spin_unlock", !.afb_blkno = p.blkno,
                           !.afb_ret = p.ret], lock, p.fa, FALSE)
        returned == [th EXCEPT !.pc = "idle", !.ret = th.afb_ret,
                               !.blkno = th.afb_blkno, !.order = 0]
    IN CASE th.pc = "afb_spin_lock" ->
               step([th EXCEPT !.pc = "afb_empty"], lock \cup {t}, fa,
                    lock # {})
         [] th.pc = "afb_empty" ->
               step([th EXCEPT !.pc = IF fa.count = 0 THEN "afb_refill_unlock"
                                      ELSE "afb_pop"], lock, fa, FALSE)
         [] th.pc = "afb_refill_unlock" ->
               step([th EXCEPT !.pc = "ba_enter", !.back = "afb_alloced",
                               !.order = SCOUTFS_BUDDY_ORDERS - 1],
                    lock, fa, FALSE)
         [] th.pc = "afb_alloced" ->
               IF th.ret < 0
               THEN step([th EXCEPT !.pc = "idle", !.blkno = 0, !.order = 0],
                         lock, fa, FALSE)
               ELSE step([th EXCEPT !.pc = "afb_refill_lock",
                                    !.alloc_blkno = th.blkno,
                                    !.afb_order = th.ret], lock, fa, FALSE)
         [] th.pc = "afb_refill_lock" ->
               step([th EXCEPT !.pc = "afb_install"], lock \cup {t}, fa,
                    lock # {})
         [] th.pc = "afb_install" ->
               installed(file_alloc_install(fa, th.alloc_blkno, th.afb_order))
         [] th.pc = "afb_pop" -> popped(file_alloc_pop(fa))
         [] th.pc = "afb_spin_unlock" ->
               IF th.afb_order > 0
               THEN step([th EXCEPT !.pc = "bf_enter", !.back = "afb_out",
                                    !.blkno = th.alloc_blkno,
                                    !.order = th.afb_order],
                         lock \ {t}, fa, FALSE)
               ELSE step(returned, lock \ {t}, fa, FALSE)
         [] th.pc = "afb_out" -> step(returned, lock, fa, FALSE)

(* alloc_file_block *)
alloc_file_block_step(t, th, lock, fa) ==
    LET step(th1, lock1, fa1, wait) ==
           [th |-> th1, lock |-> lock1, fa |-> fa1, bug |-> FALSE,
            wait |-> wait]
        installed(ins) ==
           step([th EXCEPT !.pc = "afb_pop", !.afb_order = ins.order],
                lock, ins.fa, FALSE)
        popped(p) ==
           step([th EXCEPT !.pc = "afb_spin_unlock", !.afb_blkno = p.blkno,
                           !.afb_ret = p.ret], lock, p.fa, FALSE)
        returned == [th EXCEPT !.pc = "idle", !.ret = th.afb_ret,
                               !.blkno = th.afb_blkno, !.order = 0]
    IN CASE th.pc = "afb_spin_lock" ->
               step([th EXCEPT !.pc = "afb_empty"], lock \cup {t}, fa,
                    lock # {})
         [] th.pc = "afb_empty" ->
               step([th EXCEPT !.pc = IF fa.count = 0 THEN "afb_refill_unlock"
                                      ELSE "afb_pop"], lock, fa, FALSE)
         [] th.pc = "afb_refill_unlock" ->
               step([th EXCEPT !.pc = "ba_enter", !.back = "afb_alloced",
                               !.order = SCOUTFS_BUDDY_ORDERS - 1],
                    lock \ {t}, fa, FALSE)
         [] th.pc = "afb_alloced" ->
               IF th.ret < 0
               THEN step([th EXCEPT !.pc = "idle", !.blkno = 0, !.order = 0],
                         lock, fa, FALSE)
               ELSE step([th EXCEPT !.pc = "afb_refill_lock",
                                    !.alloc_blkno = th.blkno,
                                    !.afb_order = th.ret], lock, fa, FALSE)
         [] th.pc = "afb_refill_lock" ->
               step([th EXCEPT !.pc = "afb_install"], lock \cup {t}, fa,
                    lock # {})
         [] th.pc = "afb_install" ->
               installed(file_alloc_install(fa, th.alloc_blkno, th.afb_order))
         [] th.pc = "afb_pop" -> popped(file_alloc_pop(fa))
         [] th.pc = "afb_spin_unlock" ->
               IF th.afb_order > 0
               THEN step([th EXCEPT !.pc = "bf_enter", !.back = "afb_out",
                                    !.blkno = th.alloc_blkno,
                                    !.order = th.afb_order],
                         lock \ {t}, fa, FALSE)
               ELSE step(returned, lock \ {t}, fa, FALSE)
         [] th.pc = "afb_out" -> step(returned, lock, fa, FALSE)

(* return_file_block; bug is its BUG_ON, which stops the thread where it   *)
(* is                                                                      *)
return_file_block_step(t, th, lock, fa) ==
    LET returned(r) ==
           [th |-> IF r.bug THEN th ELSE [th EXCEPT !.pc = "rfb_spin_unlock"],
            lock |-> lock, fa |-> r.fa, bug |-> r.bug, wait |-> FALSE]
    IN CASE th.pc = "rfb_spin_lock" ->
               [th |-> [th EXCEPT !.pc = "rfb_return"], lock |-> lock \cup {t},
                fa |-> fa, bug |-> FALSE, wait |-> lock # {}]
         [] th.pc = "rfb_return" -> returned(return_file_block(fa, th.blkno))
         [] th.pc = "rfb_spin_unlock" ->
               [th |-> [th EXCEPT !.pc = "idle", !.ret = 0],
                lock |-> lock \ {t}, fa |-> fa, bug |-> FALSE, wait |-> FALSE]

(* the places of a thread inside the two functions *)
AllocFileBlockPcs ==
    {"afb_spin_lock", "afb_empty", "afb_refill_unlock", "afb_alloced",
     "afb_refill_lock", "afb_install", "afb_pop", "afb_spin_unlock", "afb_out"}
ReturnFileBlockPcs == {"rfb_spin_lock", "rfb_return", "rfb_spin_unlock"}

(* a thread takes the step s of alloc_file_block or return_file_block *)
FileStep(t, s) ==
    /\ ~bug
    /\ ~s.wait
    /\ file_alloc_lock' = s.lock
    /\ file_alloc_blkno' = s.fa.blkno
    /\ file_alloc_count' = s.fa.count
    /\ bug' = s.bug
    /\ IF s.th.pc = "idle" THEN ThreadReturn(t, s.th)
       ELSE /\ thread' = [thread EXCEPT ![t] = s.th]
            /\ UNCHANGED <<last, owned>>
    /\ UNCHANGED <<write, round, super, stable_super, buddy_mutex, calls, bmap,
                   stable_bmap, task, mapped>>

AllocFileBlockCall(t) ==
    /\ ThreadCall(t, "alloc_file_block", "afb_spin_lock", 0, 0)
    /\ UNCHANGED <<write, round, super, stable_super, file_alloc_blkno,
                   file_alloc_count, owned, bug, last, bmap, stable_bmap,
                   task, mapped, buddy_mutex, file_alloc_lock>>

(* map_writable_block gives back the block alloc_file_block gave it *)
ReturnFileBlockCall(t, blkno) ==
    /\ ThreadCall(t, "return_file_block", "rfb_spin_lock", blkno, 0)
    /\ owned' = owned \ {blkno}
    /\ UNCHANGED <<write, round, super, stable_super, file_alloc_blkno,
                   file_alloc_count, bug, last, bmap, stable_bmap, task,
                   mapped, buddy_mutex, file_alloc_lock>>

AllocFileBlockStep(t) ==
    /\ thread[t].pc \in AllocFileBlockPcs
    /\ \E s \in {alloc_file_block_step(t, thread[t], file_alloc_lock,
                                       FileAlloc)} : FileStep(t, s)

ReturnFileBlockStep(t) ==
    /\ thread[t].pc \in ReturnFileBlockPcs
    /\ \E s \in {return_file_block_step(t, thread[t], file_alloc_lock,
                                        FileAlloc)} : FileStep(t, s)

SpinCall == calls < MaxSpinCalls

(* the commit waits for the writers to leave the transaction *)
ThreadsIdle == \A t \in Tasks : thread[t].pc = "idle"

NextSpin ==
    \/ \E t \in Tasks : SpinCall /\ AllocFileBlockCall(t)
    \/ \E t \in Tasks, blkno \in owned :
          SpinCall /\ ReturnFileBlockCall(t, blkno)
    \/ \E t \in Tasks : AllocFileBlockStep(t)
    \/ \E t \in Tasks : ReturnFileBlockStep(t)
    \/ \E t \in Tasks : BuddyAllocStep(t)
    \/ \E t \in Tasks : BuddyFreeStep(t)
    \/ SpinCall /\ ThreadsIdle /\ Commit

SpecSpin == Init /\ [][NextSpin]_vars

(* ---------------------------------------------------------------------- *)
(* Callers that pass any order and any block of the buddy region, on a     *)
(* device whose super block may lack the reference of the bitmap block or  *)
(* of the indirect block (the "XXX corruption" cases of bitmap_alloc,      *)
(* alloc_order and buddy_free).  The stable super is the copy of the super *)
(* that was read.                                                          *)
(* ---------------------------------------------------------------------- *)
ReadSuper(bm_ref, ind_ref) ==
    [MkfsSuper EXCEPT !.buddy_bm_ref = bm_ref, !.buddy_ind_ref = ind_ref]

InitRead ==
    /\ \E bm_ref \in {0, MkfsSuper.buddy_bm_ref},
          ind_ref \in {0, MkfsSuper.buddy_ind_ref} :
          /\ super = ReadSuper(bm_ref, ind_ref)
          /\ stable_super = ReadSuper(bm_ref, ind_ref)
    /\ file_alloc_blkno = 0
    /\ file_alloc_count = 0
    /\ owned = {}
    /\ bug = FALSE
    /\ last = NoCall
    /\ calls = 0
    /\ bmap = [k \in BmapKeys |-> NoItem]
    /\ stable_bmap = [k \in BmapKeys |-> NoItem]
    /\ task = [t \in Tasks |-> IdleTask]
    /\ mapped = [k \in Tasks \X Iblocks |-> 0]
    /\ round = NoRound
    /\ buddy_mutex = {}
    /\ file_alloc_lock = {}
    /\ thread = [t \in Tasks |-> IdleThread]
    /\ write = IdleWrite

AnyCall ==
    /\ ~bug
    /\ calls < MaxAnyCalls
    /\ calls' = calls + 1

BuddyAllocAny(order) ==
    /\ AnyCall
    /\ \E r \in {scoutfs_buddy_alloc(super, stable_super, order)} :
          /\ super' = r.sup
          /\ owned' = IF r.ret >= 0 THEN owned \cup Extent(r.blkno, r.ret)
                      ELSE owned
          /\ last' = [op |-> "alloc", ret |-> r.ret, blkno |-> r.blkno,
                      order |-> order]
    /\ UNCHANGED <<write, round, locks, stable_super, file_alloc_blkno, file_alloc_count, bug,
                   bmap, stable_bmap, task, mapped>>

(* an extent that buddy_free takes is one the caller holds; without the    *)
(* indirect block nothing records which blocks are held                    *)
BuddyFreeAny(blkno, order) ==
    /\ AnyCall
    /\ (order \in Orders /\ valid_order(super, blkno, order)
        /\ super.buddy_ind_ref # 0)
          => Extent(blkno, order) \subseteq owned
    /\ \E f \in {scoutfs_buddy_free(super, stable_super, blkno, order)} :
          /\ super' = f.sup
          /\ owned' = IF f.ret = 0 THEN owned \ Extent(blkno, order) ELSE owned
          /\ last' = [op |-> "free", ret |-> f.ret, blkno |-> blkno,
                      order |-> order]
    /\ UNCHANGED <<write, round, locks, stable_super, file_alloc_blkno, file_alloc_count, bug,
                   bmap, stable_bmap, task, mapped>>

(* the block layer allocates the copy of a block of the bitmap region *)
BitmapAlloc(existing) ==
    /\ AnyCall
    /\ \E r \in {scoutfs_buddy_alloc_same(super, stable_super, 0, existing)} :
          /\ super' = r.sup
          /\ owned' = IF r.ret = 0 THEN owned \cup {r.blkno} ELSE owned
          /\ last' = [op |-> "bm_alloc", ret |-> r.ret, blkno |-> r.blkno,
                      order |-> 0]
    /\ UNCHANGED <<write, round, locks, stable_super, file_alloc_blkno, file_alloc_count, bug,
                   bmap, stable_bmap, task, mapped>>

NextAny ==
    \/ \E order \in CallOrders : BuddyAllocAny(order)
    \/ \E blkno \in BuddyRegion(super), order \in CallOrders :
          BuddyFreeAny(blkno, order)
    \/ \E existing \in BmRegion(super) : BitmapAlloc(existing)

SpecAny == InitRead /\ [][NextAny]_vars

(* ---------------------------------------------------------------------- *)
(* The seeding of a buddy block.  The last slot of the device covers any   *)
(* count of blocks from none to SCOUTFS_BUDDY_ORDER0_BITS; its buddy block *)
(* is created by the alloc that comes to the slot, or by                   *)
(* dirty_buddy_block called for the slot.                                  *)
(* ---------------------------------------------------------------------- *)
LastSlot == SCOUTFS_BUDDY_SLOTS - 1

ZeroIb ==
    [ind |-> [slots |-> [sl \in SlotIds |-> [ref |-> 0, free_orders |-> {}]],
              order_totals |-> [i \in Orders |-> 0]],
     bud |-> ZeroBud]

(* the super of a device whose last slot covers count blocks *)
SlotSuper(count) ==
    [MkfsSuper EXCEPT
       !.total_blocks = first_blkno(MkfsSuper)
                        + LastSlot * SCOUTFS_BUDDY_ORDER0_BITS + count,
       !.ind.slots[LastSlot].free_orders =
           update_free_orders(seed_bits(ZeroIb, count).bud)]

InitSlot ==
    /\ \E count \in 0 .. SCOUTFS_BUDDY_ORDER0_BITS :
          /\ super = SlotSuper(count)
          /\ stable_super = SlotSuper(count)
    /\ file_alloc_blkno = 0
    /\ file_alloc_count = 0
    /\ owned = {}
    /\ bug = FALSE
    /\ last = NoCall
    /\ calls = 0
    /\ bmap = [k \in BmapKeys |-> NoItem]
    /\ stable_bmap = [k \in BmapKeys |-> NoItem]
    /\ task = [t \in Tasks |-> IdleTask]
    /\ mapped = [k \in Tasks \X Iblocks |-> 0]
    /\ round = NoRound
    /\ buddy_mutex = {}
    /\ file_alloc_lock = {}
    /\ thread = [t \in Tasks |-> IdleThread]
    /\ write = IdleWrite

(* dirty_buddy_block of a slot that has no buddy block yet *)
DirtyBuddyBlock(sl) ==
    /\ AnyCall
    /\ super.ind.slots[sl].ref = 0
    /\ \E r \in {dirty_buddy_block(super, stable_super, sl)} :
          /\ super' = r.sup
          /\ last' = [op |-> "dirty_buddy_block", ret |-> r.ret,
                      blkno |-> r.sup.ind.slots[sl].ref, order |-> 0]
    /\ UNCHANGED <<write, round, locks, stable_super, file_alloc_blkno, file_alloc_count, bug,
                   owned, bmap, stable_bmap, task, mapped>>

(* The same seeding in a buddy block of size order 0 bits: the constants   *)
(* of the format give a slot many extents of the highest order.            *)
order_off_of(size, order) ==
    IF order = 0 THEN 0
    ELSE (2 * size) - (size \div Pow2(order - 1))

set_buddy_bit_of(size, ib, order, nr) ==
    IF order_off_of(size, order) + nr \in ib.bud.bits THEN ib
    ELSE [ind |-> [ib.ind EXCEPT !.order_totals[order] = @ + 1],
          bud |-> [bits |-> ib.bud.bits \cup {order_off_of(size, order) + nr},
                   order_counts |-> [ib.bud.order_counts EXCEPT ![order] = @ + 1]]]

RECURSIVE seed_run_of(_, _, _, _)
seed_run_of(size, ib, count, nr) ==
    IF count > Pow2(SCOUTFS_BUDDY_ORDERS - 1)
    THEN seed_run_of(size,
                     set_buddy_bit_of(size, ib, SCOUTFS_BUDDY_ORDERS - 1, nr),
                     count - Pow2(SCOUTFS_BUDDY_ORDERS - 1), nr + 1)
    ELSE [ib |-> ib, count |-> count, nr |-> nr]

RECURSIVE seed_rest_of(_, _, _, _, _)
seed_rest_of(size, ib, count, order, nr) ==
    LET isset == (count \div Pow2(order)) % 2 = 1
        nr1 == IF isset THEN (nr + 1) * 2 ELSE nr * 2
        rest(ib1) ==
           IF order = 0 THEN ib1
           ELSE seed_rest_of(size, ib1, count, order - 1, nr1)
    IN rest(IF isset THEN set_buddy_bit_of(size, ib, order, nr) ELSE ib)

seed_bits_of(size, ib, count) ==
    LET rest(run) == seed_rest_of(size, run.ib, run.count,
                                  SCOUTFS_BUDDY_ORDERS - 1, run.nr)
    IN rest(seed_run_of(size, ib, count, 0))

(* a buddy block of WideBits order 0 bits is seeded for count blocks *)
SeedWide(count) ==
    /\ AnyCall
    /\ \E ib \in {seed_bits_of(WideBits, [ind |-> super.ind, bud |-> ZeroBud],
                               count)} :
          last' = [op |-> "seed", ret |-> 0, blkno |-> 0, order |-> 0,
                   count |-> count, bud |-> ib.bud,
                   order_totals |-> ib.ind.order_totals]
    /\ UNCHANGED <<write, super, round, locks, stable_super, file_alloc_blkno,
                   file_alloc_count, bug, owned, bmap, stable_bmap, task, mapped>>

NextSlot ==
    \/ \E order \in Orders : BuddyAllocAny(order)
    \/ \E sl \in SlotIds : DirtyBuddyBlock(sl)
    \/ \E count \in 0 .. WideBits : SeedWide(count)

SpecSlot == InitSlot /\ [][NextSlot]_vars

(* ---------------------------------------------------------------------- *)
(* The allocator of one slot whose buddy block has WideBits order 0 bits,  *)
(* as the constants of the format give a slot many extents of the highest  *)
(* order: alloc_slot, buddy_free's merge and the commit, with the bit      *)
(* functions taking the size of the block.  The slot is slot 0 of the      *)
(* super and both supers reference its buddy block.                        *)
(* ---------------------------------------------------------------------- *)
test_buddy_bit_of(size, bud, order, nr) ==
    order_off_of(size, order) + nr \in bud.bits

RECURSIVE test_buddy_bit_or_higher_of(_, _, _, _)
test_buddy_bit_or_higher_of(size, bud, order, nr) ==
    IF order >= SCOUTFS_BUDDY_ORDERS THEN FALSE
    ELSE IF test_buddy_bit_of(size, bud, order, nr) THEN TRUE
    ELSE test_buddy_bit_or_higher_of(size, bud, order + 1, nr \div 2)

clear_buddy_bit_of(size, ib, order, nr) ==
    IF order_off_of(size, order) + nr \notin ib.bud.bits THEN ib
    ELSE [ind |-> [ib.ind EXCEPT !.order_totals[order] = @ - 1],
          bud |-> [bits |-> ib.bud.bits \ {order_off_of(size, order) + nr},
                   order_counts |-> [ib.bud.order_counts EXCEPT ![order] = @ - 1]]]

find_next_buddy_bit_of(size, bud, order, nr) ==
    LET end == order_off_of(size, order + 1)
        p == IF nr = INT_MAX THEN end
             ELSE find_next_bit_le(bud.bits, end,
                                   order_off_of(size, order) + nr)
    IN IF p >= end THEN INT_MAX ELSE p - order_off_of(size, order)

slot_buddy_blkno_of(size, sup, sl, order, nr) ==
    first_blkno(sup) + (sl * size) + (nr * Pow2(order))

(* one pass of find_first_fit's for loop, from order i up; the stable      *)
(* buddy block of the slot exists                                          *)
RECURSIVE find_first_fit_pass_of(_, _, _, _, _, _, _)
find_first_fit_pass_of(size, sup, sl, bud, st_bud, i, acc) ==
    IF i >= SCOUTFS_BUDDY_ORDERS THEN acc
    ELSE LET body(nr) ==
                IF nr = INT_MAX
                THEN [acc EXCEPT !.nrs[i] = nr]
                ELSE IF ~test_buddy_bit_or_higher_of(size, st_bud, i, nr)
                THEN [acc EXCEPT !.nrs[i] = nr + 1,
                                 !.made_progress = TRUE]
                ELSE IF slot_buddy_blkno_of(size, sup, sl, i, nr) < acc.blkno
                THEN [acc EXCEPT !.nrs[i] = nr,
                                 !.made_progress = TRUE,
                                 !.blkno = slot_buddy_blkno_of(size, sup, sl, i, nr),
                                 !.order_ret = i,
                                 !.ret = nr]
                ELSE [acc EXCEPT !.nrs[i] = nr,
                                 !.made_progress = TRUE]
         IN find_first_fit_pass_of(size, sup, sl, bud, st_bud, i + 1,
                body(find_next_buddy_bit_of(size, bud, i, acc.nrs[i])))

RECURSIVE find_first_fit_loop_of(_, _, _, _, _, _, _)
find_first_fit_loop_of(size, sup, sl, bud, st_bud, order, acc) ==
    LET again(a) ==
           IF a.ret = INT_MAX /\ a.made_progress
           THEN find_first_fit_loop_of(size, sup, sl, bud, st_bud, order, a)
           ELSE a
    IN again(find_first_fit_pass_of(size, sup, sl, bud, st_bud, order,
                                    [acc EXCEPT !.made_progress = FALSE]))

find_first_fit_of(size, sup, sl, bud, st_bud, order) ==
    find_first_fit_loop_of(size, sup, sl, bud, st_bud, order,
                           [nrs |-> [i \in Orders |-> 0], blkno |-> U64_MAX,
                            made_progress |-> FALSE, ret |-> INT_MAX,
                            order_ret |-> 0])

RECURSIVE free_right_buddies_of(_, _, _, _, _)
free_right_buddies_of(size, ib, nr, i, order) ==
    IF i >= order
    THEN free_right_buddies_of(size, set_buddy_bit_of(size, ib, i, Or1(nr)),
                               nr * 2, i - 1, order)
    ELSE ib

(* alloc_slot once both buddy blocks of the slot are at hand *)
alloc_slot_of(size, sup, st, sl, order) ==
    LET split(f, ib2) ==
           [ret |-> 0,
            blkno |-> slot_buddy_blkno_of(size, sup, sl, f.order_ret, f.ret),
            sup |-> [sup EXCEPT
                       !.ind = [ib2.ind EXCEPT
                                  !.slots[sl].free_orders =
                                     update_free_orders(ib2.bud)],
                       !.bud[sl] = ib2.bud]]
        found(f) ==
           IF f.ret = INT_MAX
           THEN [ret |-> -ENOSPC, blkno |-> 0, sup |-> sup]
           ELSE split(f,
                      free_right_buddies_of(size,
                          clear_buddy_bit_of(size, slot_ib(sup, sl),
                                             f.order_ret, f.ret),
                          f.ret * 2, f.order_ret - 1, order))
    IN found(find_first_fit_of(size, sup, sl, sup.bud[sl], st.bud[sl], order))

RECURSIVE buddy_free_merge_of(_, _, _, _)
buddy_free_merge_of(size, ib, i, nr) ==
    IF i < SCOUTFS_BUDDY_ORDERS - 1 /\ test_buddy_bit_of(size, ib.bud, i, Xor1(nr))
    THEN buddy_free_merge_of(size, clear_buddy_bit_of(size, ib, i, Xor1(nr)),
                             i + 1, nr \div 2)
    ELSE set_buddy_bit_of(size, ib, i, nr)

(* buddy_free once the buddy block of the slot is at hand *)
buddy_free_of(size, sup, sl, blkno, order) ==
    LET merged(ib) ==
           [sup EXCEPT
              !.ind = [ib.ind EXCEPT
                         !.slots[sl].free_orders = update_free_orders(ib.bud)],
              !.bud[sl] = ib.bud]
    IN merged(buddy_free_merge_of(size, slot_ib(sup, sl), order,
                  ((blkno - first_blkno(sup)) % size) \div Pow2(order)))

(* the super of a device of one slot of WideBits blocks *)
WideSuper ==
    LET ib == seed_bits_of(WideBits, ZeroIb, WideBits)
    IN [MkfsSuper EXCEPT
          !.total_blocks = first_blkno(MkfsSuper) + WideBits,
          !.ind = [slots |-> [sl \in SlotIds |->
                      IF sl = 0
                      THEN [ref |-> MkfsSuper.ind.slots[0].ref,
                            free_orders |-> update_free_orders(ib.bud)]
                      ELSE [ref |-> 0, free_orders |-> {}]],
                   order_totals |-> ib.ind.order_totals],
          !.bud = [sl \in SlotIds |-> IF sl = 0 THEN ib.bud ELSE ZeroBud]]

InitWide ==
    /\ super = WideSuper
    /\ stable_super = WideSuper
    /\ file_alloc_blkno = 0
    /\ file_alloc_count = 0
    /\ owned = {}
    /\ bug = FALSE
    /\ last = NoCall
    /\ calls = 0
    /\ bmap = [k \in BmapKeys |-> NoItem]
    /\ stable_bmap = [k \in BmapKeys |-> NoItem]
    /\ task = [t \in Tasks |-> IdleTask]
    /\ mapped = [k \in Tasks \X Iblocks |-> 0]
    /\ round = NoRound
    /\ buddy_mutex = {}
    /\ file_alloc_lock = {}
    /\ thread = [t \in Tasks |-> IdleThread]
    /\ write = IdleWrite

WideCall ==
    /\ ~bug
    /\ calls < MaxWideCalls
    /\ calls' = calls + 1

AllocSlot(order) ==
    /\ WideCall
    /\ \E r \in {alloc_slot_of(WideBits, super, stable_super, 0, order)} :
          /\ super' = r.sup
          /\ owned' = IF r.ret = 0 THEN owned \cup Extent(r.blkno, order)
                      ELSE owned
          /\ last' = [op |-> "alloc_slot", ret |-> r.ret, blkno |-> r.blkno,
                      order |-> order]
    /\ UNCHANGED <<write, round, locks, stable_super, file_alloc_blkno, file_alloc_count, bug,
                   bmap, stable_bmap, task, mapped>>

FreeSlot(blkno, order) ==
    /\ WideCall
    /\ (blkno - first_blkno(super)) % Pow2(order) = 0
    /\ Extent(blkno, order) \subseteq owned
    /\ super' = buddy_free_of(WideBits, super, 0, blkno, order)
    /\ owned' = owned \ Extent(blkno, order)
    /\ last' = [op |-> "free", ret |-> 0, blkno |-> blkno, order |-> order]
    /\ UNCHANGED <<write, round, locks, stable_super, file_alloc_blkno, file_alloc_count, bug,
                   bmap, stable_bmap, task, mapped>>

(* the dirty super becomes the stable super *)
CommitSlot ==
    /\ WideCall
    /\ stable_super' = super
    /\ last' = [op |-> "commit", ret |-> 0, blkno |-> 0, order |-> 0]
    /\ UNCHANGED <<write, super, round, locks, file_alloc_blkno, file_alloc_count, bug,
                   owned, bmap, stable_bmap, task, mapped>>

NextWide ==
    \/ \E order \in Orders : AllocSlot(order)
    \/ \E blkno \in owned, order \in Orders : FreeSlot(blkno, order)
    \/ CommitSlot

SpecWide == InitWide /\ [][NextWide]_vars

(* ---------------------------------------------------------------------- *)
(* One writer that takes its blocks from the reservoir and never gives one *)
(* back to it: alloc_file_block step by step, and the commit.              *)
(* ---------------------------------------------------------------------- *)
Writer == "t1"

PopCall == calls < MaxPopCalls

NextPop ==
    \/ PopCall /\ AllocFileBlockCall(Writer)
    \/ AllocFileBlockStep(Writer)
    \/ BuddyAllocStep(Writer)
    \/ PopCall /\ ThreadsIdle /\ Commit

SpecPop == Init /\ [][NextPop]_vars

(* ---------------------------------------------------------------------- *)
(* The write path of the page cache: scoutfs_write_begin and               *)
(* scoutfs_write_end of one writer, step by step.  The block layer calls   *)
(* scoutfs_write_begin_get_block, which is map_writable_block above.      *)
(* ---------------------------------------------------------------------- *)
(* the page at hand *)
WritePage == write.page[write.iblock]

(* one step of the writer that leaves the allocator alone *)
WriteStep(pc) ==
    /\ ~bug
    /\ write.pc = pc
    /\ UNCHANGED <<super, stable_super, file_alloc_blkno, file_alloc_count,
                   owned, bug, last, calls, bmap, stable_bmap, task, mapped,
                   round, locks>>

(* the VFS calls scoutfs_write_begin for a write into block iblock;       *)
(* aligned is IS_ALIGNED(pos | len, SCOUTFS_BLOCK_SIZE)                    *)
WriteBeginCall(iblock, aligned) ==
    /\ WriteStep("idle")
    /\ write.n < MaxWrites
    /\ write' = [write EXCEPT !.pc = "grab", !.aligned = aligned,
                              !.iblock = iblock, !.ret = 0, !.n = @ + 1,
                              !.unlocks = 0]

(* retry: grab_cache_page_write_begin gives the locked page with a         *)
(* reference, a new page if the old one left the cache, or NULL            *)
WbGrab ==
    /\ WriteStep("grab")
    /\ \E ok \in BOOLEAN, fresh \in BOOLEAN :
          write' = IF ~ok
                   THEN [write EXCEPT !.pc = "idle", !.ret = -ENOMEM,
                                      !.have_page = FALSE]
                   ELSE [write EXCEPT
                           !.pc = "check", !.have_page = TRUE,
                           !.locked = TRUE, !.refs = @ + 1,
                           !.unlocks = 0,
                           !.page[write.iblock] =
                               IF fresh THEN FreshPage ELSE @]

(* if (!PageUptodate(page) && !IS_ALIGNED(pos | len, SCOUTFS_BLOCK_SIZE)) *)
WbCheck ==
    /\ WriteStep("check")
    /\ write' = [write EXCEPT
                   !.pc = IF ~WritePage.uptodate /\ ~write.aligned
                          THEN "readpage" ELSE "hold"]

(* what scoutfs_readpage can return *)
ReadpageResults == {0, -ENOMEM}

(* ret = scoutfs_readpage(NULL, page): the read-only get_block maps the    *)
(* buffer of a mapped block if the read goes through the page's buffers;   *)
(* a failed readpage has unlocked the page                                 *)
WbReadpage ==
    /\ WriteStep("readpage")
    /\ \E ret \in ReadpageResults, bufs \in BOOLEAN :
       \E c \in {contig_mapped_blocks(bmap, Writer, write.iblock)} :
          write' = IF ret # 0
                   THEN [write EXCEPT !.pc = "out", !.ret = ret,
                                      !.locked = FALSE, !.unlocks = @ + 1,
                                      !.refs = @ - 1]
                   ELSE [write EXCEPT
                           !.pc = "wait",
                           !.page[write.iblock].has_buffers = @ \/ bufs,
                           !.page[write.iblock].mapped =
                               @ \/ (bufs /\ c.ret > 0)]

(* wait_on_page_locked(page): the read has unlocked the page, which is up  *)
(* to date or in error                                                     *)
WbWait ==
    /\ WriteStep("wait")
    /\ \E uptodate \in BOOLEAN :
          write' = [write EXCEPT
                      !.pc = IF uptodate THEN "grab" ELSE "out",
                      !.ret = IF uptodate THEN @ ELSE -EIO,
                      !.locked = FALSE,
                      !.unlocks = @ + 1,
                      !.refs = @ - 1,
                      !.page[write.iblock].uptodate = uptodate]

(* what scoutfs_hold_trans can return *)
HoldResults == {0, -EIO}

(* ret = scoutfs_hold_trans(sb); if (ret) goto out; *)
WbHold ==
    /\ WriteStep("hold")
    /\ \E ret \in HoldResults :
          write' = [write EXCEPT
                      !.pc = IF ret # 0 THEN "out" ELSE "clear",
                      !.ret = ret,
                      !.holds = IF ret # 0 THEN @ ELSE @ + 1]

(* the page keeps the mappings of its buffers *)
clear_mapped_page_buffers_keep(page) == page

(* clear_mapped_page_buffers: clear_buffer_mapped on every mapped buffer   *)
(* of a page that has buffers                                              *)
clear_mapped_page_buffers(page) ==
    IF ~page.has_buffers THEN page ELSE [page EXCEPT !.mapped = FALSE]

(* clear_mapped_page_buffers(page); *)
WbClear ==
    /\ WriteStep("clear")
    /\ write' = [write EXCEPT
                   !.pc = "block_write_begin",
                   !.page[write.iblock] = clear_mapped_page_buffers(@)]

(* __block_write_begin gives the page its buffer and calls get_block for   *)
(* a buffer that is not mapped                                             *)
WbBlockWriteBegin ==
    /\ WriteStep("block_write_begin")
    /\ write' = [write EXCEPT
                   !.pc = IF WritePage.has_buffers /\ WritePage.mapped
                          THEN "block_read" ELSE "get_block",
                   !.mark = calls,
                   !.page[write.iblock].has_buffers = TRUE]

(* the writer makes few calls of map_writable_block, and few commits *)
WriteCall == calls < MaxWriteCalls

(* scoutfs_write_begin_get_block with create set: map_writable_block *)
WbGetBlock ==
    /\ write.pc = "get_block"
    /\ write.mark = calls
    /\ WriteCall
    /\ MapStart(Writer, write.iblock)

(* scoutfs_write_begin_get_block after map_writable_block: map_bh if it    *)
(* returned 0, and its error is the error of __block_write_begin           *)
WbGetBlockReturn ==
    /\ WriteStep("get_block")
    /\ write.mark + 1 = calls
    /\ task[Writer].pc = "idle"
    /\ write' = IF last.ret = 0
                THEN [write EXCEPT !.pc = "block_read",
                                   !.page[write.iblock].mapped = TRUE]
                ELSE [write EXCEPT !.pc = "out", !.ret = last.ret]

(* what the read of a block can come to *)
BlockReadResults == {0, -EIO}

(* __block_write_begin after get_block: a buffer that is not up to date    *)
(* under a partial write is read from its block                            *)
WbBlockRead ==
    /\ WriteStep("block_read")
    /\ \E ret \in IF WritePage.uptodate \/ write.aligned THEN {0}
                  ELSE BlockReadResults :
          write' = [write EXCEPT !.pc = "out", !.ret = ret]

(* out: an error unlocks the page and puts it; *pagep = page; return ret; *)
WbOut ==
    /\ WriteStep("out")
    /\ write' = IF write.ret < 0
                THEN [write EXCEPT !.pc = "idle", !.have_page = FALSE,
                                   !.locked = FALSE, !.unlocks = @ + 1,
                                   !.refs = @ - 1]
                ELSE [write EXCEPT !.pc = "copy"]

(* scoutfs_write_end: generic_write_end marks the page up to date after a  *)
(* full copy, unlocks it and puts it; then scoutfs_release_trans           *)
WriteEnd ==
    /\ WriteStep("copy")
    /\ \E full \in BOOLEAN :
          write' = [write EXCEPT
                      !.pc = "idle", !.have_page = FALSE,
                      !.locked = FALSE, !.unlocks = @ + 1,
                      !.refs = @ - 1,
                      !.holds = @ - 1,
                      !.page[write.iblock].uptodate = @ \/ full]

(* a commit waits for the holders of the transaction.  The writer is the   *)
(* only caller of map_writable_block, so alloc_file_block never finds a    *)
(* reservoir that another caller filled and has no surplus to free.        *)
NextWrite ==
    \/ \E iblock \in Iblocks, aligned \in BOOLEAN :
          WriteBeginCall(iblock, aligned)
    \/ WbGrab
    \/ WbCheck
    \/ WbReadpage
    \/ WbWait
    \/ WbHold
    \/ WbClear
    \/ WbBlockWriteBegin
    \/ WbGetBlock
    \/ AfbLock(Writer)
    \/ AfbBuddy(Writer)
    \/ AfbRelock(Writer)
    \/ MwFree(Writer)
    \/ WbGetBlockReturn
    \/ WbBlockRead
    \/ WbOut
    \/ WriteEnd
    \/ WriteCall /\ write.holds = 0 /\ Commit

SpecWrite == Init /\ [][NextWrite]_vars

(* ---------------------------------------------------------------------- *)
(* The block layer allocates the copy of any block of the device with      *)
(* scoutfs_buddy_alloc_same and frees single blocks of every region.       *)
(* ---------------------------------------------------------------------- *)
PairRegion == 0 .. (SCOUTFS_BUDDY_BM_BLKNO + SCOUTFS_BUDDY_BM_NR - 1)

SameCall ==
    /\ ~bug
    /\ calls < MaxSameCalls
    /\ calls' = calls + 1

AllocSame(order, existing) ==
    /\ SameCall
    /\ \E r \in {scoutfs_buddy_alloc_same(super, stable_super, order,
                                          existing)} :
          /\ super' = r.sup
          /\ owned' = IF r.ret >= 0 /\ r.blkno \notin PairRegion
                      THEN owned \cup Extent(r.blkno, r.ret) ELSE owned
          /\ last' = [op |-> "alloc_same", ret |-> r.ret, blkno |-> r.blkno,
                      order |-> order, existing |-> existing]
    /\ UNCHANGED <<write, round, locks, stable_super, file_alloc_blkno,
                   file_alloc_count, bug, bmap, stable_bmap, task, mapped>>

(* a block of the pair region, or a block that an allocation returned *)
FreeSame(blkno) ==
    /\ SameCall
    /\ blkno \in PairRegion \cup owned
    /\ \E f \in {scoutfs_buddy_free(super, stable_super, blkno, 0)} :
          /\ super' = f.sup
          /\ owned' = IF f.ret = 0 THEN owned \ {blkno} ELSE owned
          /\ last' = [op |-> "free_same", ret |-> f.ret, blkno |-> blkno,
                      order |-> 0, existing |-> blkno]
    /\ UNCHANGED <<write, round, locks, stable_super, file_alloc_blkno,
                   file_alloc_count, bug, bmap, stable_bmap, task, mapped>>

NextSame ==
    \/ \E order \in Orders, existing \in 0 .. (super.total_blocks - 1) :
          AllocSame(order, existing)
    \/ \E blkno \in PairRegion \cup owned : FreeSame(blkno)
    \/ calls < MaxSameCalls /\ Commit

SpecSame == Init /\ [][NextSame]_vars

(* ---------------------------------------------------------------------- *)
(* The read path: mpage_readpage(s) asks scoutfs_readpage_get_block to map *)
(* a buffer of b_size blocks at a logical block.                           *)
(* ---------------------------------------------------------------------- *)
(* scoutfs_readpage_get_block; b_size counts blocks, mapped is map_bh *)
scoutfs_readpage_get_block(map, t, iblock, b_size, create) ==
    IF create
    THEN [ret |-> -EINVAL, mapped |-> FALSE, blkno |-> 0, b_size |-> b_size]
    ELSE LET c == contig_mapped_blocks(map, t, iblock)
         IN IF c.ret > 0
            THEN [ret |-> 0, mapped |-> TRUE, blkno |-> c.blkno,
                  b_size |-> Min(b_size, c.ret)]
            ELSE [ret |-> c.ret, mapped |-> FALSE, blkno |-> 0,
                  b_size |-> b_size]

(* a reader of the file of writer t has a buffer mapped *)
ReadpageGetBlock(t, iblock, b_size, create) ==
    /\ ~bug
    /\ \E r \in {scoutfs_readpage_get_block(bmap, t, iblock, b_size,
                                            create)} :
          last' = [op |-> "readpage_get_block", ret |-> r.ret,
                   blkno |-> r.blkno, order |-> 0, who |-> t,
                   iblock |-> iblock, mapped |-> r.mapped,
                   b_size |-> r.b_size]
    /\ UNCHANGED <<write, round, locks, super, stable_super, file_alloc_blkno,
                   file_alloc_count, owned, bug, calls, bmap, stable_bmap,
                   task, mapped>>

(* the writer makes few calls where the reader looks on *)
GetBlockCall == calls < MaxGetBlockCalls

NextGetBlock ==
    \/ \E iblock \in Iblocks : GetBlockCall /\ MapStart(Writer, iblock)
    \/ AfbLock(Writer)
    \/ AfbBuddy(Writer)
    \/ AfbRelock(Writer)
    \/ MwFree(Writer)
    \/ GetBlockCall /\ Commit
    \/ \E iblock \in Iblocks, b_size \in 1 .. MaxBhBlocks, create \in BOOLEAN :
          ReadpageGetBlock(Writer, iblock, b_size, create)

SpecGetBlock == Init /\ [][NextGetBlock]_vars

(* scoutfs_buddy_bfree: the free blocks that order_totals count; a missing *)
(* indirect block is the error of scoutfs_block_read_ref                   *)
RECURSIVE bfree_sum(_, _)
bfree_sum(order_totals, i) ==
    IF i >= SCOUTFS_BUDDY_ORDERS THEN 0
    ELSE order_totals[i] * Pow2(i) + bfree_sum(order_totals, i + 1)

scoutfs_buddy_bfree(sup) ==
    IF sup.buddy_ind_ref = 0 THEN [ret |-> -EIO, bfree |-> 0]
    ELSE [ret |-> 0, bfree |-> bfree_sum(sup.ind.order_totals, 0)]

(* ---------------------------------------------------------------------- *)
(* The loops of scoutfs_buddy_alloc, iteration by iteration.  Each takes   *)
(* the number of iterations it may run and returns what each iteration     *)
(* left, so a loop that does not end shows as a sequence that uses up the  *)
(* iterations it was given.                                                *)
(* ---------------------------------------------------------------------- *)
(* bitmap_alloc's do-while: d and s after each iteration *)
RECURSIVE bitmap_scan_steps(_, _, _, _, _)
bitmap_scan_steps(bits, st_bits, size, s, fuel) ==
    IF fuel = 0 THEN <<>>
    ELSE LET d == find_next_bit_le(bits, size, s)
             s2 == find_next_bit_le(st_bits, size, d)
         IN <<[d |-> d, s |-> s2]>>
            \o (IF d # s2
                THEN bitmap_scan_steps(bits, st_bits, size, s2, fuel - 1)
                ELSE <<>>)

(* the scan position is dropped between the passes *)
RECURSIVE find_first_fit_passes_restart(_, _, _, _, _, _, _, _)
find_first_fit_passes_restart(sup, sl, bud, st_null, st_bud, order, acc, fuel) ==
    IF fuel = 0 THEN <<>>
    ELSE LET again(a) ==
                <<a>> \o (IF a.ret = INT_MAX /\ a.made_progress
                          THEN find_first_fit_passes_restart(
                                   sup, sl, bud, st_null, st_bud, order, acc,
                                   fuel - 1)
                          ELSE <<>>)
         IN again(find_first_fit_pass(sup, sl, bud, st_null, st_bud, order,
                                      [acc EXCEPT !.made_progress = FALSE]))

(* find_first_fit's do-while: the locals after each pass *)
RECURSIVE find_first_fit_passes(_, _, _, _, _, _, _, _)
find_first_fit_passes(sup, sl, bud, st_null, st_bud, order, acc, fuel) ==
    IF fuel = 0 THEN <<>>
    ELSE LET again(a) ==
                <<a>> \o (IF a.ret = INT_MAX /\ a.made_progress
                          THEN find_first_fit_passes(
                                   sup, sl, bud, st_null, st_bud, order, a,
                                   fuel - 1)
                          ELSE <<>>)
         IN again(find_first_fit_pass(sup, sl, bud, st_null, st_bud, order,
                                      [acc EXCEPT !.made_progress = FALSE]))

(* alloc_order's for loop: the slots it calls alloc_slot for, and the      *)
(* super each call starts from                                             *)
RECURSIVE alloc_order_visits(_, _, _, _, _)
alloc_order_visits(sup, st, order, i, fuel) ==
    IF fuel = 0 \/ i >= SCOUTFS_BUDDY_SLOTS THEN <<>>
    ELSE IF ~(/\ (order_mask(order) \cap sup.ind.slots[i].free_orders) # {}
              /\ (order_mask(order) \cap st.ind.slots[i].free_orders) # {})
    THEN alloc_order_visits(sup, st, order, i + 1, fuel - 1)
    ELSE LET tried(a) ==
                <<[sl |-> i, sup |-> sup]>>
                \o (IF a.ret # -ENOSPC THEN <<>>
                    ELSE alloc_order_visits(a.sup, st, order, i + 1, fuel - 1))
         IN tried(alloc_slot(sup, st, i, order))

(* buddy_alloc's do-while: the orders it calls alloc_order for, and the    *)
(* super each call starts from                                             *)
RECURSIVE buddy_alloc_tries(_, _, _, _)
buddy_alloc_tries(sup, st, order, fuel) ==
    IF fuel = 0 THEN <<>>
    ELSE LET tried(r) ==
                <<[order |-> order, ret |-> r.ret, sup |-> sup]>>
                \o (IF r.ret = -ENOSPC /\ order # 0
                    THEN buddy_alloc_tries(r.sup, st, order - 1, fuel - 1)
                    ELSE <<>>)
         IN tried(alloc_order(sup, st, order))

LoopCall == calls < MaxLoopCalls

NextLoop ==
    \/ \E order \in Orders : LoopCall /\ BuddyAlloc(order)
    \/ \E blkno \in owned, order \in Orders : LoopCall /\ BuddyFree(blkno, order)
    \/ LoopCall /\ Commit

SpecLoop == Init /\ [][NextLoop]_vars

(* ---------------------------------------------------------------------- *)
(* Properties of the buddy allocator.                                      *)
(* ---------------------------------------------------------------------- *)
AllocReturned == last.op = "alloc" /\ last.ret >= 0

(* C1: every extent scoutfs_buddy_alloc returns consists of blocks that are *)
(* free in the stable view when it is returned: a block the committed      *)
(* image has allocated, freed or not in this transaction, is never         *)
(* returned before the next commit.                                        *)
C1_AllocFreeInStable ==
    AllocReturned =>
        Extent(last.blkno, last.ret) \subseteq FreeBlocks(stable_super)

(* an alloc has passed over a lower block that this transaction freed and  *)
(* the stable view still has allocated                                     *)
C1_Witness ==
    /\ AllocReturned
    /\ \E b \in FreeBlocks(super) \ FreeBlocks(stable_super) : b < last.blkno

(* the bits of an order that an order-k bit nr covers *)
Covered(k, nr, j) == (nr * Pow2(k - j)) .. ((nr + 1) * Pow2(k - j) - 1)

OrderBits(order) == 0 .. ((SCOUTFS_BUDDY_ORDER0_BITS \div Pow2(order)) - 1)

Hierarchy(bud) ==
    \A k \in Orders : \A nr \in OrderBits(k) :
        test_buddy_bit(bud, k, nr) =>
            \A j \in 0 .. (k - 1) : \A m \in Covered(k, nr, j) :
                ~test_buddy_bit(bud, j, m)

(* C7: in every dirty buddy block a set bit of order k has every bit it    *)
(* covers at every lower order clear.                                      *)
C7_Hierarchy ==
    \A sl \in SlotIds : super.ind.slots[sl].ref # 0 => Hierarchy(super.bud[sl])

(* a free has merged two buddies below an extent that is still split       *)
C7_Witness ==
    /\ last.op = "free" /\ last.ret = 0 /\ last.order = 0
    /\ test_buddy_bit(super.bud[indirect_slot(super, last.blkno)], 1,
                      buddy_bit(super, last.blkno) \div 2)
    /\ owned # {}

PopCount(bud, order) ==
    Cardinality({nr \in OrderBits(order) : test_buddy_bit(bud, order, nr)})

RECURSIVE SumCounts(_, _, _)
SumCounts(sup, order, sl) ==
    IF sl >= SCOUTFS_BUDDY_SLOTS THEN 0
    ELSE (IF sup.ind.slots[sl].ref # 0 THEN sup.bud[sl].order_counts[order]
          ELSE 0) + SumCounts(sup, order, sl + 1)

(* C8: order_counts[k] is the number of set bits of order k, order_totals[k] *)
(* the sum of order_counts[k] over the populated slots, and free_orders    *)
(* has bit k exactly when order_counts[k] is not zero, after every call.   *)
C8_Accounting ==
    /\ \A sl \in SlotIds : super.ind.slots[sl].ref # 0 =>
          /\ \A k \in Orders :
                super.bud[sl].order_counts[k] = PopCount(super.bud[sl], k)
          /\ super.ind.slots[sl].free_orders =
                {k \in Orders : super.bud[sl].order_counts[k] > 0}
    /\ \A k \in Orders : super.ind.order_totals[k] = SumCounts(super, k, 0)

(* an alloc has failed after every slot got its buddy block *)
C8_Witness ==
    /\ last.op = "alloc" /\ last.ret < 0
    /\ \A sl \in SlotIds : super.ind.slots[sl].ref # 0
    /\ \E k \in Orders : super.ind.order_totals[k] > 1

(* the set bits of the buddy block of a block's slot *)
SlotBits(sup, blkno) == sup.bud[indirect_slot(sup, blkno)].bits

(* the bits of the right buddies left behind when the extent of order f    *)
(* around bit is broken up down to order g                                 *)
RightBuddies(bit, g, f) ==
    {order_nr(i, Xor1(bit \div Pow2(i))) : i \in g .. (f - 1)}

(* C9: a successful alloc grants an order g with 0 <= g <= order at a      *)
(* blkno aligned to 2^g in its slot; exactly the 2^g blocks from blkno on  *)
(* go from free to allocated in the dirty view and the rest of a larger    *)
(* extent of order f that was broken up stays free as the right buddies of *)
(* the orders g .. f-1.                                                    *)
C9_AllocExtent ==
    [][(last'.op = "alloc" /\ calls' = calls + 1 /\ last'.ret >= 0) =>
        LET g == last'.ret
            blkno == last'.blkno
            bit == buddy_bit(super, blkno)
        IN /\ g <= last'.order
           /\ blkno \in BuddyRegion(super)
           /\ valid_order(super, blkno, g)
           /\ Extent(blkno, g) \subseteq FreeBlocks(super)
           /\ FreeBlocks(super') = FreeBlocks(super) \ Extent(blkno, g)
           /\ \E f \in g .. (SCOUTFS_BUDDY_ORDERS - 1) :
                 /\ order_nr(f, bit \div Pow2(f)) \in SlotBits(super, blkno)
                 /\ SlotBits(super', blkno) =
                       (SlotBits(super, blkno) \ {order_nr(f, bit \div Pow2(f))})
                       \cup RightBuddies(bit, g, f)]_vars

(* an alloc was granted less than it asked for out of a larger extent      *)
C9_Witness ==
    /\ AllocReturned /\ last.ret = 0 /\ last.order > 0
    /\ test_buddy_bit(super.bud[indirect_slot(super, last.blkno)], 1,
                      Xor1(buddy_bit(super, last.blkno) \div 2))

(* the free extents of the dirty view that a free region of the stable     *)
(* buddy block of their slot covers                                        *)
FitsInStable(sup, st) ==
    {c \in SlotIds \X Orders \X OrderBits(0) :
        /\ sup.ind.slots[c[1]].ref # 0
        /\ st.ind.slots[c[1]].ref # 0
        /\ c[3] \in OrderBits(c[2])
        /\ test_buddy_bit(sup.bud[c[1]], c[2], c[3])
        /\ test_buddy_bit_or_higher(st.bud[c[1]], c[2], c[3])}

(* the blocks free in the buddy blocks of both views *)
FreeInBoth(sup, st) ==
    {b \in BuddyRegion(sup) :
        /\ sup.ind.slots[indirect_slot(sup, b)].ref # 0
        /\ st.ind.slots[indirect_slot(sup, b)].ref # 0
        /\ IsFree(sup, b) /\ IsFree(st, b)}

(* the bitmap has a block free in both views for every block of the       *)
(* allocator that is still to be copied or created in this transaction     *)
CowFits(sup, st) ==
    Cardinality({d \in sup.bm \cap st.bm : d < sup.buddy_blocks}) >=
        Cardinality({sl \in SlotIds :
                        sup.ind.slots[sl].ref = st.ind.slots[sl].ref})
        + (IF sup.buddy_ind_ref = st.buddy_ind_ref THEN 1 ELSE 0)

(* C10 as claimed: alloc returns NoSpace only when no block is free in both *)
(* views.                                                                  *)
C10_Claimed ==
    (last.op = "alloc" /\ last.ret = -ENOSPC) =>
        FreeInBoth(super, stable_super) = {}

(* C10 amended: while the bitmap can serve the copies of the allocator's    *)
(* own blocks, alloc succeeds when some free extent of the dirty view is   *)
(* covered by a free region of the stable buddy block of its slot, and     *)
(* returns NoSpace when there is none.                                     *)
C10_AllocFits ==
    [][(last'.op = "alloc" /\ calls' = calls + 1
        /\ CowFits(super, stable_super)) =>
        /\ FitsInStable(super, stable_super) # {} => last'.ret >= 0
        /\ FitsInStable(super, stable_super) = {} => last'.ret = -ENOSPC]_vars

(* an alloc of a higher order was served by the only extent that fits, of  *)
(* order 0                                                                 *)
C10_Witness ==
    /\ AllocReturned /\ last.order > 0 /\ last.ret = 0
    /\ FitsInStable(super, stable_super) = {}
    /\ FreeBlocks(super) # {}

(* ---------------------------------------------------------------------- *)
(* Properties of the bitmap allocator.                                     *)
(* ---------------------------------------------------------------------- *)
(* the bits free in both bitmap blocks *)
BmCommon(sup, st) == {d \in sup.bm \cap st.bm : d < sup.buddy_blocks}

BmLowest(bits) == CHOOSE d \in bits : \A e \in bits : d <= e

BmBit(blkno) == blkno - (SCOUTFS_BUDDY_BM_BLKNO + SCOUTFS_BUDDY_BM_NR)

(* C3: bitmap_alloc returns BM_BLKNO + BM_NR + d for the lowest d below     *)
(* buddy_blocks whose bit is set in the dirty and in the stable bitmap and *)
(* clears bit d in the dirty bitmap only; it returns NoSpace and changes   *)
(* no bit when there is no such d.  So a block that this transaction freed *)
(* and the stable bitmap has allocated is not returned before the commit.  *)
C3_BitmapAlloc ==
    [][(last'.op = "bm_alloc" /\ calls' = calls + 1) =>
        /\ stable_super'.bm = stable_super.bm
        /\ IF BmCommon(super, stable_super) = {}
           THEN last'.ret = -ENOSPC /\ super'.bm = super.bm
           ELSE /\ last'.ret = 0
                /\ BmBit(last'.blkno) = BmLowest(BmCommon(super, stable_super))
                /\ super'.bm = super.bm \ {BmBit(last'.blkno)}
                /\ BmBit(last'.blkno) \notin (super.bm \ stable_super.bm)]_vars

(* bitmap_alloc has passed over a lower bit that this transaction freed and *)
(* the stable bitmap has allocated                                         *)
C3_Witness ==
    /\ last.op = "bm_alloc" /\ last.ret = 0
    /\ \E d \in super.bm \ stable_super.bm : d < BmBit(last.blkno)

(* ---------------------------------------------------------------------- *)
(* Properties of the file block mapper.                                    *)
(* ---------------------------------------------------------------------- *)
(* the block an item of a btree maps a logical block to, 0 for none *)
MapOf(map, t, iblock) ==
    IF map[set_bmap_key(t, iblock)] = NoItem THEN 0
    ELSE map[set_bmap_key(t, iblock)][iblock % SCOUTFS_BLOCK_MAP_COUNT]

(* the holders of allocated blocks: the reservoir, the block and the       *)
(* extent a writer has in its locals, and each mapping of the dirty btree  *)
Holders ==
    {<<"reservoir">>}
    \cup {<<"new_blkno", t>> : t \in Tasks}
    \cup {<<"alloc_blkno", t>> : t \in Tasks}
    \cup {<<"bmap", t, iblock>> : t \in Tasks, iblock \in Iblocks}

Held(h) ==
    CASE h[1] = "reservoir" ->
            file_alloc_blkno .. (file_alloc_blkno + file_alloc_count - 1)
      [] h[1] = "new_blkno" -> {task[h[2]].new_blkno} \ {0}
      [] h[1] = "alloc_blkno" ->
            IF task[h[2]].alloc_blkno = 0 THEN {}
            ELSE Extent(task[h[2]].alloc_blkno, task[h[2]].order)
      [] h[1] = "bmap" -> {MapOf(bmap, h[2], h[3])} \ {0}

Outstanding == UNION {Held(h) : h \in Holders}

(* C2: the allocations outstanding are pairwise disjoint and allocated in  *)
(* the dirty view in every state; an extent scoutfs_buddy_alloc returns    *)
(* was free in the dirty view and overlaps none of them, and the block     *)
(* alloc_file_block returns is in no other writer's hands and in no        *)
(* mapping.                                                                *)
(* (a block with one holder: the holders are pairwise disjoint)            *)
C2_NoDoubleAlloc ==
    /\ [](\A b \in Outstanding :
             /\ Cardinality({h \in Holders : b \in Held(h)}) = 1
             /\ ~IsFree(super, b))
    /\ [][\A t \in Tasks :
            /\ (task[t].pc = "afb_buddy" /\ task'[t].pc = "afb_relock") =>
                  \A b \in Extent(task'[t].alloc_blkno, task'[t].order) :
                     IsFree(super, b) /\ b \notin Outstanding
            /\ (task[t].new_blkno = 0 /\ task'[t].new_blkno # 0) =>
                  task'[t].new_blkno \notin
                     UNION {Held(h) : h \in Holders \ {<<"reservoir">>,
                                                       <<"alloc_blkno", t>>}}]_vars

(* two writers found the reservoir empty: one has made its extent the      *)
(* reservoir, the other has taken a block of it and still holds an extent  *)
(* of its own                                                              *)
C2_Witness ==
    \E t \in Tasks :
        /\ task[t].pc = "afb_surplus"
        /\ task[t].new_blkno # 0
        /\ \E u \in Tasks \ {t} : MapOf(bmap, u, 0) # 0 \/ task[u].new_blkno # 0

(* C4: the block map_writable_block gives scoutfs_write_begin_get_block to *)
(* publish is free in the stable view: the committed image does not        *)
(* reference it.                                                           *)
C4_PublishedFreeInStable ==
    (last.op = "map" /\ last.ret = 0) =>
        IsFree(stable_super, last.blkno)

(* the write of a block the committed image maps was given a new block     *)
C4_Witness ==
    /\ last.op = "map" /\ last.ret = 0
    /\ MapOf(stable_bmap, last.who, last.iblock) # 0
    /\ ~IsFree(stable_super, MapOf(stable_bmap, last.who, last.iblock))
    /\ MapOf(bmap, last.who, last.iblock) = last.blkno

(* the step in which writer t calls map_writable_block for iblock *)
MapCalled(t, iblock) ==
    /\ calls' = calls + 1
    /\ task[t].pc = "idle"
    /\ \/ task'[t].pc = "afb_lock" /\ task'[t].iblock = iblock
       \/ /\ task' = task
          /\ last'.op = "map" /\ last'.who = t /\ last'.iblock = iblock

(* C5: map_writable_block called again for a logical block it has mapped   *)
(* in this transaction returns the same block, and takes nothing from the  *)
(* reservoir, calls neither the buddy alloc nor free, and leaves the item. *)
C5_MapAgain ==
    [][\A t \in Tasks : \A iblock \in Iblocks :
          (MapCalled(t, iblock) /\ mapped[<<t, iblock>>] # 0) =>
             /\ task'[t].pc = "idle"
             /\ last'.ret = 0
             /\ last'.blkno = mapped[<<t, iblock>>]
             /\ UNCHANGED <<super, file_alloc_blkno, file_alloc_count,
                            bmap>>]_vars

(* a second call has returned the block of the first, a block that is not  *)
(* in the committed image                                                  *)
C5_Witness ==
    /\ last.op = "map" /\ last.ret = 0
    /\ last.old = last.blkno
    /\ MapOf(stable_bmap, last.who, last.iblock) # last.blkno

(* the blocks of the committed image that this transaction has replaced *)
Replaced ==
    {MapOf(stable_bmap, t, iblock) : t \in Tasks, iblock \in Iblocks} \
    ({MapOf(bmap, t, iblock) : t \in Tasks, iblock \in Iblocks} \cup {0})

(* the step in which map_writable_block returns to writer t *)
MapReturned(t) ==
    /\ last'.op = "map" /\ last'.who = t
    /\ \/ task[t].pc # "idle" /\ task'[t].pc = "idle"
       \/ task' = task /\ calls' = calls + 1

(* C6: the first map_writable_block of a transaction for a logical block   *)
(* the committed image maps to B0 returns another block B1, stores B1 in   *)
(* the item and frees B0 in the dirty view only: was_free(B0, 0) is false  *)
(* until the commit and true after it.                                     *)
C6_Rewrite ==
    /\ [][\A t \in Tasks :
            (/\ MapReturned(t) /\ last'.ret = 0
             /\ MapOf(stable_bmap, t, last'.iblock) # 0
             /\ mapped[<<t, last'.iblock>>] = 0) =>
                /\ last'.blkno # MapOf(stable_bmap, t, last'.iblock)
                /\ MapOf(bmap', t, last'.iblock) = last'.blkno
                /\ MapOf(stable_bmap, t, last'.iblock) \in Replaced']_vars
    /\ [](\A b \in Replaced :
             /\ IsFree(super, b)
             /\ scoutfs_buddy_was_free(super, stable_super, b, 0) = 0)
    /\ [][(last'.op = "commit" /\ calls' = calls + 1 /\ ~bug') =>
             \A b \in Replaced :
                scoutfs_buddy_was_free(super', stable_super', b, 0) = 1]_vars

(* the write of a block the committed image maps has returned a new block  *)
(* and freed the old one, which merged with its free buddy                 *)
C6_Witness ==
    /\ last.op = "map" /\ last.ret = 0
    /\ last.old # 0 /\ last.old # last.blkno
    /\ last.old \in Replaced
    /\ ~test_buddy_bit(super.bud[indirect_slot(super, last.old)], 0,
                       buddy_bit(super, last.old))

(* ---------------------------------------------------------------------- *)
(* Round trip of allocations and frees (buddy.c alloc_slot, buddy_free).   *)
(* ---------------------------------------------------------------------- *)
(* the slots whose buddy block the allocations of the round created *)
RoundSeeded == {sl \in SlotIds : /\ round.base.ind.slots[sl].ref = 0
                                  /\ super.ind.slots[sl].ref # 0}

(* the order_counts of an order summed over some slots *)
RECURSIVE SeededCounts(_, _)
SeededCounts(slots, order) ==
    IF slots = {} THEN 0
    ELSE LET sl == CHOOSE x \in slots : TRUE
         IN super.bud[sl].order_counts[order]
            + SeededCounts(slots \ {sl}, order)

(* C11 as claimed: once every extent of the round is freed, the dirty     *)
(* buddy bitmaps, order_counts, order_totals and free_orders are what they *)
(* were before the first alloc of the round.                               *)
C11_Claimed ==
    round.phase = "done" =>
        /\ \A sl \in SlotIds :
              /\ super.bud[sl] = round.base.bud[sl]
              /\ super.ind.slots[sl].free_orders =
                    round.base.ind.slots[sl].free_orders
        /\ super.ind.order_totals = round.base.ind.order_totals

(* C11: once every extent of the round is freed, every slot that had its  *)
(* buddy block before the first alloc has the bitmaps, order_counts and    *)
(* free_orders it had then; a slot whose buddy block an alloc of the round *)
(* created holds its seeded bits, and order_totals has grown by the        *)
(* order_counts of those slots and by nothing else.                        *)
C11_RoundTrip ==
    round.phase = "done" =>
        /\ \A sl \in SlotIds \ RoundSeeded :
              /\ super.bud[sl] = round.base.bud[sl]
              /\ super.ind.slots[sl].free_orders =
                    round.base.ind.slots[sl].free_orders
        /\ \A sl \in RoundSeeded :
              /\ super.bud[sl] =
                    seed_bits([ind |-> round.base.ind, bud |-> ZeroBud],
                              slot_count(super, sl)).bud
              /\ super.ind.slots[sl].free_orders =
                    update_free_orders(super.bud[sl])
        /\ \A i \in Orders :
              super.ind.order_totals[i] =
                 round.base.ind.order_totals[i]
                 + SeededCounts(RoundSeeded, i)

(* a round of several allocations that began after other calls and that *)
(* has given every extent back                                             *)
C11_Witness ==
    /\ round.phase = "done"
    /\ round.allocs >= 2
    /\ round.base.bud # MkfsSuper.bud
    /\ super.bud = round.base.bud

(* ---------------------------------------------------------------------- *)
(* Merging of buddies in buddy_free.                                       *)
(* ---------------------------------------------------------------------- *)
(* the bit, at its order, of the extent the last call was about *)
LastNr == buddy_bit(super, last.blkno) \div Pow2(last.order)
LastBud == super.bud[indirect_slot(super, last.blkno)]

(* this step is a free of an extent of an order below the highest whose   *)
(* buddy is free already                                                   *)
SecondBuddyFreed ==
    /\ calls' = calls + 1
    /\ last'.op = "free"
    /\ last'.ret = 0
    /\ last'.order < SCOUTFS_BUDDY_ORDERS - 1
    /\ test_buddy_bit(super.bud[indirect_slot(super, last'.blkno)],
                      last'.order, Xor1(LastNr'))

ChildrenClear ==
    /\ ~test_buddy_bit(LastBud', last'.order, LastNr')
    /\ ~test_buddy_bit(LastBud', last'.order, Xor1(LastNr'))

(* the buddy of the parent is free before the step and the parent is not  *)
(* of the highest order                                                    *)
ParentMerges ==
    /\ last'.order + 1 < SCOUTFS_BUDDY_ORDERS - 1
    /\ test_buddy_bit(super.bud[indirect_slot(super, last'.blkno)],
                      last'.order + 1, Xor1(LastNr' \div 2))

(* C12 as claimed: after the second of two buddies of order k is freed,   *)
(* the bit of their parent at order k+1 is set and both bits at order k    *)
(* are clear.                                                              *)
C12_Claimed ==
    [][SecondBuddyFreed =>
          /\ ChildrenClear
          /\ test_buddy_bit(LastBud', last'.order + 1, LastNr' \div 2)]_vars

(* C12: after the second of two buddies of order k is freed, both bits at *)
(* order k are clear and the bit of their parent at order k+1 is set,      *)
(* unless the parent's own buddy was free and k+1 is not the highest       *)
(* order: then the parent's bit is clear and a bit of a higher order       *)
(* covers the two buddies.                                                 *)
C12_MergeComplete ==
    [][SecondBuddyFreed =>
          /\ ChildrenClear
          /\ test_buddy_bit_or_higher(LastBud', last'.order + 1,
                                      LastNr' \div 2)
          /\ test_buddy_bit(LastBud', last'.order + 1, LastNr' \div 2)
                <=> ~ParentMerges]_vars

(* a free has merged two buddies into their parent *)
C12_Witness ==
    /\ last.op = "free"
    /\ last.ret = 0
    /\ last.order < SCOUTFS_BUDDY_ORDERS - 1
    /\ test_buddy_bit(LastBud, last.order + 1, LastNr \div 2)

(* ---------------------------------------------------------------------- *)
(* The error return of map_writable_block.                                 *)
(* ---------------------------------------------------------------------- *)
MapFailed(t) == MapReturned(t) /\ last'.ret < 0

(* C13: when map_writable_block returns an error, the block it popped     *)
(* from the reservoir is at the head of the reservoir again, the item it   *)
(* inserted is deleted, and blkno[i] holds the value it had before the     *)
(* call, which no step of the call changes before the return.              *)
C13_Rollback ==
    /\ [](\A t \in Tasks :
            task[t].pc # "idle" =>
               /\ MapOf(bmap, t, task[t].iblock) = task[t].old_blkno
               /\ task[t].inserted =>
                     bmap[set_bmap_key(t, task[t].iblock)] = ZeroItem)
    /\ [][\A t \in Tasks :
            MapFailed(t) =>
               /\ task[t].new_blkno # 0 =>
                     /\ file_alloc_blkno' = task[t].new_blkno
                     /\ file_alloc_count' = file_alloc_count + 1
               /\ bmap'[set_bmap_key(t, last'.iblock)] =
                     IF task[t].inserted THEN NoItem
                     ELSE bmap[set_bmap_key(t, last'.iblock)]
               /\ MapOf(bmap', t, last'.iblock) = last'.old]_vars

(* map_writable_block has failed to free the old block and has returned   *)
(* the error with the new block back at the head of the reservoir          *)
C13_Witness ==
    /\ ~bug
    /\ last.op = "map" /\ last.ret = -EIO
    /\ last.old # 0
    /\ MapOf(bmap, last.who, last.iblock) = last.old
    /\ file_alloc_count > 0
    /\ ~IsFree(super, file_alloc_blkno)

(* ---------------------------------------------------------------------- *)
(* The reservoir as a stack (alloc_file_block, return_file_block).         *)
(* ---------------------------------------------------------------------- *)
(* this step is the pop of alloc_file_block by writer t *)
PopStep(t) == task[t].new_blkno = 0 /\ task'[t].new_blkno # 0

(* the reservoir the pop of this step takes its block from: the extent    *)
(* just installed, or the reservoir as it is                               *)
BeforePop(t) ==
    IF task[t].pc = "afb_relock" /\ file_alloc_count = 0
    THEN [blkno |-> task[t].alloc_blkno, count |-> Pow2(task[t].order)]
    ELSE FileAlloc

(* return_file_block called right after the pop, and the pop after that *)
PoppedBack(t, r) ==
    /\ ~r.bug
    /\ r.fa = BeforePop(t)
    /\ file_alloc_pop(r.fa).blkno = task'[t].new_blkno
    /\ file_alloc_pop(r.fa).fa = FileAlloc'

(* C14: return_file_block of the block alloc_file_block popped last, with *)
(* the reservoir as that pop left it, restores the head and the count of   *)
(* before the pop, also when the pop took the last block, and the next pop *)
(* gives the same block again.                                             *)
C14_Lifo ==
    /\ [][\A t \in Tasks :
            PopStep(t) =>
               PoppedBack(t, return_file_block(FileAlloc',
                                               task'[t].new_blkno))]_vars
    /\ [][\A t \in Tasks :
            (/\ MapFailed(t)
             /\ task[t].new_blkno # 0
             /\ file_alloc_blkno = task[t].new_blkno + 1) =>
                /\ file_alloc_blkno' = task[t].new_blkno
                /\ file_alloc_count' = file_alloc_count + 1
                /\ file_alloc_pop(FileAlloc').blkno = task[t].new_blkno]_vars

(* a writer has popped the last block of the reservoir and its rollback   *)
(* has put it back                                                         *)
C14_Witness ==
    /\ ~bug
    /\ last.op = "map" /\ last.ret < 0
    /\ file_alloc_count = 1
    /\ file_alloc_pop(FileAlloc).fa.count = 0
    /\ \A t \in Tasks : task[t].pc = "idle"

(* ---------------------------------------------------------------------- *)
(* The extent alloc_file_block obtained and did not install.               *)
(* ---------------------------------------------------------------------- *)
(* C15: the extent a writer obtained for the reservoir and found the      *)
(* reservoir refilled is freed whatever its order, so that every block     *)
(* allocated in the dirty view is in the reservoir, in a writer's hands or *)
(* in a mapping.                                                           *)
C15_SurplusFreed ==
    ~bug => \A b \in BuddyRegion(super) :
               ~IsFree(super, b) => b \in Outstanding

(* ---------------------------------------------------------------------- *)
(* The BUG_ON of return_file_block.                                        *)
(* ---------------------------------------------------------------------- *)
(* a writer holds a popped block it may have to give back; no commit runs *)
(* while a writer is inside map_writable_block                             *)
HoldsPopped == \E t \in Tasks : task[t].pc = "mw_free" /\ task[t].new_blkno # 0

(* C16: the return_file_block of a rollback never trips its BUG_ON (the   *)
(* reservoir is empty or the block is the one before the head), whatever   *)
(* the other writers popped since the block was popped.                    *)
C16_ReturnAsserted == [][(HoldsPopped /\ ~bug) => ~bug']_vars

(* ---------------------------------------------------------------------- *)
(* scoutfs_buddy_free_extent.                                              *)
(* ---------------------------------------------------------------------- *)
(* this step is a call of scoutfs_buddy_free_extent *)
ExtentFreed == calls' = calls + 1 /\ last'.op = "free_extent"

LastExtent == last.blkno .. (last.blkno + last.count - 1)

(* C18: scoutfs_buddy_free_extent(blkno, count) gets through its pieces   *)
(* without an invalid one (no BUG_ON) and frees the blocks                 *)
(* blkno .. blkno + count - 1 and no others, whatever the offset of blkno  *)
(* in its slot, 0 included.                                                *)
C18_FreeExtent ==
    [][ExtentFreed =>
          /\ ~bug'
          /\ FreeBlocks(super') = FreeBlocks(super) \cup LastExtent']_vars

(* ---------------------------------------------------------------------- *)
(* The return of the reservoir at commit (scoutfs_filerw_free_alloc).      *)
(* ---------------------------------------------------------------------- *)
(* this step is the commit: no writer is in map_writable_block or enters *)
(* it                                                                      *)
Committed == calls' = calls + 1 /\ last'.op = "commit" /\ task' = task

(* C17: scoutfs_filerw_free_alloc leaves the reservoir with head 0 and    *)
(* count 0 and every block that was in it free in the dirty view, and the  *)
(* blocks stored in map items stay allocated.                              *)
C17_ReservoirFreed ==
    [][Committed =>
          /\ ~bug'
          /\ file_alloc_blkno' = 0 /\ file_alloc_count' = 0
          /\ \A b \in Held(<<"reservoir">>) : IsFree(super', b)
          /\ \A t \in Tasks, iblock \in Iblocks :
                MapOf(bmap, t, iblock) # 0 =>
                   ~IsFree(super', MapOf(bmap, t, iblock))]_vars

(* ---------------------------------------------------------------------- *)
(* scoutfs_buddy_was_free.                                                 *)
(* ---------------------------------------------------------------------- *)
(* the order 0 bits of a stable buddy block that a set bit of some order *)
(* covers                                                                  *)
FreeBits(bud) ==
    {bit \in 0 .. (SCOUTFS_BUDDY_ORDER0_BITS - 1) :
        \E k \in Orders : test_buddy_bit(bud, k, bit \div Pow2(k))}

(* the order 0 bits of the aligned extent of an order that holds a bit *)
AlignedBits(bit, order) ==
    ((bit \div Pow2(order)) * Pow2(order)) ..
    (((bit \div Pow2(order)) * Pow2(order)) + Pow2(order) - 1)

(* the slot of blkno has no stable buddy block, or every block of the     *)
(* aligned extent is free in its stable buddy block                        *)
FreeInStable(sl, blkno, order) ==
    \/ stable_super.ind.slots[sl].ref = 0
    \/ AlignedBits(buddy_bit(stable_super, blkno), order)
          \subseteq FreeBits(stable_super.bud[sl])

(* C19: scoutfs_buddy_was_free(blkno, order) is 1 exactly when the slot   *)
(* of blkno has no buddy block in the stable indirect block or all blocks  *)
(* of the aligned extent are free in the stable buddy block, 0 otherwise,  *)
(* and the same whatever the dirty view holds.                             *)
C19_WasFree ==
    last.op = "was_free" =>
       last.ret = IF FreeInStable(indirect_slot(stable_super, last.blkno),
                                  last.blkno, last.order)
                  THEN 1 ELSE 0

(* after a commit, the answer for an extent of an order above 0 is 0      *)
(* though the extent is free in the dirty view, and an extent that is free *)
(* in a stable buddy block is allocated in the dirty view                  *)
C19_Witness ==
    /\ last.op = "was_free"
    /\ last.order > 0
    /\ last.ret = 0
    /\ valid_order(stable_super, last.blkno, last.order)
    /\ \A b \in Extent(last.blkno, last.order) :
          b \in BuddyRegion(super) /\ IsFree(super, b)
    /\ \E blkno \in BuddyRegion(stable_super), order \in Orders \ {0} :
          /\ valid_order(stable_super, blkno, order)
          /\ stable_super.ind.slots[indirect_slot(stable_super, blkno)].ref # 0
          /\ FreeInStable(indirect_slot(stable_super, blkno), blkno, order)
          /\ \A b \in Extent(blkno, order) : ~IsFree(super, b)

(* ---------------------------------------------------------------------- *)
(* contig_mapped_blocks.                                                   *)
(* ---------------------------------------------------------------------- *)
(* this step is a call of contig_mapped_blocks for a logical block *)
ContigReturned(t, iblock) ==
    /\ last' # last
    /\ last'.op = "contig" /\ last'.who = t /\ last'.iblock = iblock

(* the lengths of the runs of nonzero entries of an item from entry i on *)
Runs(item, i) ==
    {n \in 1 .. (SCOUTFS_BLOCK_MAP_COUNT - i) :
        \A j \in i .. (i + n - 1) : item[j] # 0}

(* C20: contig_mapped_blocks returns count 0 and blkno 0 when there is no *)
(* item for the logical block; otherwise blkno[i] and the number of        *)
(* nonzero entries in a row from i on, within the item; and the block      *)
(* map_writable_block returned for the logical block, with a count of at   *)
(* least 1.                                                                *)
C20_Contig ==
    [][\A t \in Tasks, iblock \in Iblocks :
          ContigReturned(t, iblock) =>
             /\ IF bmap[set_bmap_key(t, iblock)] = NoItem
                THEN last'.ret = 0 /\ last'.blkno = 0
                ELSE /\ last'.blkno = MapOf(bmap, t, iblock)
                     /\ last'.ret =
                           Cardinality(Runs(bmap[set_bmap_key(t, iblock)],
                                            iblock % SCOUTFS_BLOCK_MAP_COUNT))
                     /\ (iblock % SCOUTFS_BLOCK_MAP_COUNT) + last'.ret
                           <= SCOUTFS_BLOCK_MAP_COUNT
             /\ mapped[<<t, iblock>>] # 0 =>
                   /\ last'.blkno = mapped[<<t, iblock>>]
                   /\ last'.ret >= 1]_vars

(* a reader finds the block map_writable_block returned and the mapped    *)
(* entry after it                                                          *)
C20_Witness ==
    /\ last.op = "contig"
    /\ last.ret >= 2
    /\ last.blkno # 0
    /\ last.blkno = mapped[<<last.who, last.iblock>>]

(* ---------------------------------------------------------------------- *)
(* The allocator mutex.                                                    *)
(* ---------------------------------------------------------------------- *)
(* the places between mutex_lock and mutex_unlock *)
MutexPcs ==
    {"ba_loop", "ba_mutex_unlock", "bf_merge", "bf_mutex_unlock", "wf_read",
     "wf_mutex_unlock"}

(* the thread t has taken a step that changed the bitmap block, the        *)
(* indirect block or a buddy block                                         *)
Mutated(t) == thread'[t] # thread[t] /\ super' # super

(* C21: the bitmap block, the indirect block and the buddy blocks change   *)
(* only in a step of a thread that holds the allocator mutex, at most one  *)
(* thread holds the mutex, and a thread holds it nowhere but between the   *)
(* mutex_lock and the mutex_unlock of buddy_alloc, buddy_free and          *)
(* scoutfs_buddy_was_free, so on no path out of them.                      *)
C21_Mutex ==
    /\ [](Cardinality(buddy_mutex) <= 1)
    /\ [](\A t \in Tasks : t \in buddy_mutex <=> thread[t].pc \in MutexPcs)
    /\ [][\A t \in Tasks : Mutated(t) => t \in buddy_mutex]_vars

(* a thread that has changed the blocks holds the mutex on the error path *)
(* of buddy_free, before its mutex_unlock, and the other thread waits for  *)
(* the mutex                                                               *)
C21_Witness ==
    /\ super # MkfsSuper
    /\ \E t \in Tasks, u \in Tasks :
          /\ t \in buddy_mutex
          /\ thread[t].pc = "bf_mutex_unlock"
          /\ thread[t].ret = -EIO
          /\ thread[u].pc = "ba_mutex_lock"

(* ---------------------------------------------------------------------- *)
(* The spin lock of the reservoir.                                         *)
(* ---------------------------------------------------------------------- *)
(* the places between spin_lock and spin_unlock *)
SpinPcs ==
    {"afb_empty", "afb_refill_unlock", "afb_install", "afb_pop",
     "afb_spin_unlock", "rfb_return", "rfb_spin_unlock"}

(* the places inside the functions that can sleep *)
SleepPcs == BuddyAllocPcs \cup BuddyFreePcs \cup WasFreePcs

(* C22: a thread inside scoutfs_buddy_alloc or scoutfs_buddy_free, which   *)
(* can sleep, does not hold the spin lock of the reservoir, and a thread   *)
(* holds the lock nowhere but between the spin_lock and the spin_unlock of *)
(* alloc_file_block and return_file_block, so on no path out of them.      *)
C22_SpinLock ==
    \A t \in Tasks :
       /\ thread[t].pc \in SleepPcs => t \notin file_alloc_lock
       /\ t \in file_alloc_lock <=> thread[t].pc \in SpinPcs

(* a thread frees the extent it did not need, outside the lock, while the  *)
(* other holds the lock inside return_file_block                           *)
C22_Witness ==
    \E t \in Tasks, u \in Tasks :
       /\ thread[t].fn = "alloc_file_block"
       /\ thread[t].pc \in {"bf_merge", "bf_mutex_unlock"}
       /\ thread[u].pc \in {"rfb_return", "rfb_spin_unlock"}
       /\ u \in file_alloc_lock
(* the errors of the arguments and of the missing references *)
BadOrder(order) == order < 0 \/ order >= SCOUTFS_BUDDY_ORDERS

Refused(ret) == last'.ret = ret /\ super' = super

(* C23: scoutfs_buddy_alloc of an order outside [0, ORDERS) and            *)
(* scoutfs_buddy_free of such an order, or of a block that is not aligned  *)
(* to its order in its slot, return -EINVAL; bitmap_alloc without the      *)
(* dirty or the stable reference of the bitmap block, and an alloc or a    *)
(* free of valid arguments without the reference of the indirect block,    *)
(* return -EIO; in each case the super, with its bitmap bits, buddy bits,  *)
(* counters and references, is left as it was.                             *)
C23_Refused ==
    [][calls' = calls + 1 =>
         /\ (last'.op = "alloc" /\ BadOrder(last'.order)) => Refused(-EINVAL)
         /\ (last'.op = "free" /\ BadOrder(last'.order)) => Refused(-EINVAL)
         /\ (/\ last'.op = "free"
             /\ ~BadOrder(last'.order)
             /\ ~valid_order(super, last'.blkno, last'.order))
               => Refused(-EINVAL)
         /\ (/\ last'.op = "bm_alloc"
             /\ (super.buddy_bm_ref = 0 \/ stable_super.buddy_bm_ref = 0))
               => Refused(-EIO)
         /\ (/\ last'.op = "alloc"
             /\ ~BadOrder(last'.order)
             /\ (super.buddy_ind_ref = 0 \/ stable_super.buddy_ind_ref = 0))
               => Refused(-EIO)
         /\ (/\ last'.op = "free"
             /\ ~BadOrder(last'.order)
             /\ valid_order(super, last'.blkno, last'.order)
             /\ super.buddy_ind_ref = 0)
               => Refused(-EIO)]_vars

(* a caller that holds blocks has passed an order that its block is not    *)
(* aligned to                                                              *)
C23_Witness ==
    /\ owned # {}
    /\ last.op = "free"
    /\ last.ret = -EINVAL
    /\ last.order \in Orders
    /\ ~valid_order(super, last.blkno, last.order)

(* the call that is returning has created the buddy block of slot sl *)
Created(sl) ==
    /\ calls' = calls + 1
    /\ last'.op = "alloc"
    /\ super.ind.slots[sl].ref = 0
    /\ super'.ind.slots[sl].ref # 0

(* C24: a scoutfs_buddy_alloc that comes to a slot without a buddy block   *)
(* creates the block with bitmap_alloc, seeds it with the free extents of  *)
(* slot_count blocks, and returns an extent of that slot from the same     *)
(* call.                                                                   *)
C24_LazyAlloc ==
    [][\A sl \in SlotIds :
          Created(sl) =>
             /\ super'.ind.slots[sl].ref \in BmRegion(super)
             /\ super'.ind.slots[sl].ref - (SCOUTFS_BUDDY_BM_BLKNO + SCOUTFS_BUDDY_BM_NR) \in super.bm \ super'.bm
             /\ last'.ret >= 0
             /\ indirect_slot(super, last'.blkno) = sl]_vars

(* the order and the extent of offsets of a bit of a buddy block of size   *)
(* order 0 bits                                                            *)
BitOrder(size, b) ==
    CHOOSE k \in Orders :
       /\ order_off_of(size, k) <= b
       /\ \A j \in Orders : order_off_of(size, j) <= b => j <= k

BitExtent(size, b) ==
    Extent((b - order_off_of(size, BitOrder(size, b)))
              * Pow2(BitOrder(size, b)),
           BitOrder(size, b))

(* the bits of bud mark the offsets below count free, each once, with a    *)
(* bit of the highest order for every full extent and one bit for every    *)
(* bit of the remainder, and order_counts counts the bits                  *)
Seeded(size, bud, count) ==
    /\ UNION {BitExtent(size, b) : b \in bud.bits} = 0 .. (count - 1)
    /\ \A b1 \in bud.bits : \A b2 \in bud.bits \ {b1} :
          BitExtent(size, b1) \cap BitExtent(size, b2) = {}
    /\ \A k \in Orders :
          /\ bud.order_counts[k] =
                Cardinality({b \in bud.bits : BitOrder(size, b) = k})
          /\ bud.order_counts[k] =
                IF k = SCOUTFS_BUDDY_ORDERS - 1 THEN count \div Pow2(k)
                ELSE (count \div Pow2(k)) % 2

SlotCreated(sl) ==
    super.ind.slots[sl].ref = 0 /\ super'.ind.slots[sl].ref # 0

(* C25: the buddy block that dirty_buddy_block creates for a slot of       *)
(* count = slot_count blocks has the offsets [0, count) free and no other, *)
(* in one bit of the highest order for every full extent of that order and *)
(* one bit for every bit set in the remainder, for every count from 0 to   *)
(* the bits of a block (a block of SCOUTFS_BUDDY_ORDER0_BITS bits and one  *)
(* of WideBits bits); no set bit covers another, order_counts counts the   *)
(* bits of each order, free_orders names the orders that have bits and     *)
(* order_totals sums order_counts over the slots that have a block.        *)
C25_Seeded ==
    /\ [][\A sl \in SlotIds :
             SlotCreated(sl) =>
                /\ Seeded(SCOUTFS_BUDDY_ORDER0_BITS, super'.bud[sl],
                          slot_count(super, sl))
                /\ Hierarchy(super'.bud[sl])
                /\ super'.ind.slots[sl].free_orders =
                      {k \in Orders : super'.bud[sl].order_counts[k] > 0}
                /\ \A k \in Orders :
                      super'.ind.order_totals[k] = SumCounts(super', k, 0)]_vars
    /\ [](last.op = "seed" =>
             /\ Seeded(WideBits, last.bud, last.count)
             /\ \A k \in Orders :
                   last.order_totals[k] =
                      super.ind.order_totals[k] + last.bud.order_counts[k])

(* a slot of one full extent has got its block, and a block of exactly two *)
(* full extents has been seeded                                            *)
C25_Witness ==
    /\ super.ind.slots[LastSlot].ref # 0
    /\ slot_count(super, LastSlot) = Pow2(SCOUTFS_BUDDY_ORDERS - 1)
    /\ last.op = "seed"
    /\ last.count = 2 * Pow2(SCOUTFS_BUDDY_ORDERS - 1)

(* the extents of order >= order that are free in the dirty buddy block of *)
(* the slot and covered by a free extent of the stable one, by their blkno *)
Candidates(size, sup, st, sl, order) ==
    {slot_buddy_blkno_of(size, sup, sl, p[1], p[2]) :
        p \in {q \in Orders \X (0 .. (size - 1)) :
                  /\ q[1] >= order
                  /\ q[2] < size \div Pow2(q[1])
                  /\ test_buddy_bit_of(size, sup.bud[sl], q[1], q[2])
                  /\ test_buddy_bit_or_higher_of(size, st.bud[sl], q[1], q[2])}}

Lowest(S) == CHOOSE b \in S : \A c \in S : b <= c

AllocSlotReturns == calls' = calls + 1 /\ last'.op = "alloc_slot"

(* C26: in a slot find_first_fit finds the extent of the lowest blkno      *)
(* among all the extents of the requested order or a higher one that are   *)
(* free in the dirty buddy block and covered by a free extent of the       *)
(* stable buddy block, and it finds none only when there is no such        *)
(* extent.                                                                 *)
C26_FirstFit ==
    [][AllocSlotReturns =>
          LET c == Candidates(WideBits, super, stable_super, 0, last'.order)
          IN IF c = {} THEN last'.ret = -ENOSPC
             ELSE last'.ret = 0 /\ last'.blkno = Lowest(c)]_vars

(* the steps of the writer inside alloc_file_block *)
AfbStep(pc) == thread[Writer].pc = pc /\ thread'[Writer] # thread[Writer]

AfbReturns ==
    /\ thread[Writer].fn = "alloc_file_block"
    /\ thread[Writer].pc \in {"afb_spin_unlock", "afb_out"}
    /\ thread'[Writer].pc = "idle"

CommitStep == calls' = calls + 1 /\ last'.op = "commit"

(* the writer goes to the buddy allocator only with the reservoir empty,   *)
(* the extent granted becomes the reservoir whole, every call takes the    *)
(* first block of the reservoir, and a call that did not refill returns    *)
(* the block after the one of the call before                              *)
Served ==
    /\ AfbStep("afb_refill_unlock") => file_alloc_count = 0
    /\ AfbStep("afb_install") =>
          /\ file_alloc_blkno' = thread[Writer].alloc_blkno
          /\ file_alloc_count' = Pow2(thread[Writer].afb_order)
    /\ AfbStep("afb_pop") =>
          /\ thread'[Writer].afb_ret = 0
          /\ thread'[Writer].afb_blkno = file_alloc_blkno
          /\ file_alloc_blkno' = file_alloc_blkno + 1
          /\ file_alloc_count' = file_alloc_count - 1
    /\ AfbReturns =>
          /\ last'.ret = 0
          /\ last'.blkno =
                IF thread[Writer].afb_order = -1
                THEN thread[Writer].alloc_blkno
                ELSE last.blkno + 1
          /\ thread[Writer].afb_order # -1 =>
                last.op = "alloc_file_block" /\ last.ret = 0

(* the original statement: a refill serves exactly the next 2^g calls, so  *)
(* the reservoir is only ever emptied by the pop of its last block         *)
C27_Claimed ==
    [][/\ Served
       /\ file_alloc_count' # file_alloc_count =>
             AfbStep("afb_install") \/ AfbStep("afb_pop")]_vars

(* C27: with one writer and no return_file_block, a refill of the empty    *)
(* reservoir with the granted order g serves the next calls of             *)
(* alloc_file_block with the blocks of the extent from its first one on,   *)
(* one after the other, without a call of scoutfs_buddy_alloc, until its   *)
(* 2^g blocks are popped or the transaction commits; the commit frees what *)
(* is left of the reservoir and the call after it refills.                 *)
C27_Served ==
    [][/\ Served
       /\ file_alloc_count' # file_alloc_count =>
             \/ AfbStep("afb_install")
             \/ AfbStep("afb_pop")
             \/ CommitStep /\ file_alloc_count' = 0]_vars

(* four calls have got the four blocks of the extent of the highest order  *)
(* and the reservoir is empty again                                        *)
C27_Witness ==
    /\ calls = Pow2(SCOUTFS_BUDDY_ORDERS - 1)
    /\ last.op = "alloc_file_block"
    /\ owned = Extent(first_blkno(super), SCOUTFS_BUDDY_ORDERS - 1)
    /\ file_alloc_count = 0
    /\ file_alloc_blkno = first_blkno(super) + Pow2(SCOUTFS_BUDDY_ORDERS - 1)


(* ---------------------------------------------------------------------- *)
(* C28: scoutfs_write_begin takes the transaction hold and calls           *)
(* map_writable_block for a page only if the page is up to date or the     *)
(* write covers whole blocks; a page that is not up to date under a        *)
(* partial write goes through scoutfs_readpage first, and after the read   *)
(* write_begin grabs the page again; the buffer mappings of the page are   *)
(* cleared while the hold is held and before get_block is called, so that  *)
(* __block_write_begin calls get_block for every page.                     *)
(* ---------------------------------------------------------------------- *)
(* the writer moves from one place of scoutfs_write_begin to another *)
WbMoves(from, to) == write.pc = from /\ write'.pc = to

(* the writer leaves a place of scoutfs_write_begin *)
WbLeaves(from) == write.pc = from /\ write'.pc # from

(* the writer calls map_writable_block *)
WbMapCalled == task[Writer].pc = "idle" /\ write.pc = "get_block"
             /\ calls' = calls + 1

(* the write may go ahead without a read of the page *)
NoReadNeeded == WritePage.uptodate \/ write.aligned

C28_WriteBegin ==
    [][/\ write'.holds > write.holds => NoReadNeeded
       /\ WbMapCalled => NoReadNeeded /\ write.holds > 0 /\ ~WritePage.mapped
       /\ WbLeaves("check") /\ ~NoReadNeeded => write'.pc = "readpage"
       /\ WbLeaves("readpage") => write'.pc \in {"wait", "out"}
                                  /\ write'.holds = write.holds
       /\ WbLeaves("wait") /\ write'.ret = 0 =>
              write'.pc = "grab" /\ write'.page[write.iblock].uptodate
       /\ WbMoves("hold", "clear") => write'.holds = write.holds + 1
       /\ WbLeaves("clear") =>
              /\ write.holds > 0
              /\ ~write'.page[write.iblock].mapped
              /\ write'.pc = "block_write_begin"
       /\ WbLeaves("block_write_begin") => write'.pc = "get_block"]_vars

(* a partial write of a page that is up to date after its read holds the   *)
(* transaction, the mapping that an earlier write of this transaction left *)
(* on the buffer is cleared, and get_block is about to be called again     *)
C28_Witness ==
    /\ write.pc = "get_block"
    /\ write.mark = calls
    /\ write.holds > 0
    /\ ~write.aligned
    /\ WritePage.uptodate
    /\ ~WritePage.mapped
    /\ mapped[<<Writer, write.iblock>>] # 0

(* ---------------------------------------------------------------------- *)
(* C30: every transaction hold that scoutfs_write_begin takes is released  *)
(* exactly once: by write_begin itself before it returns an error, by      *)
(* scoutfs_write_end after it returned success.  So outside of a write     *)
(* (nobody between write_begin and write_end) no hold is outstanding, and  *)
(* between a successful write_begin and its write_end there is exactly    *)
(* one.                                                                    *)
(* ---------------------------------------------------------------------- *)
C30_HoldReleased ==
    /\ write.pc = "idle" => write.holds = 0
    /\ write.pc = "copy" => write.holds = 1


(* ---------------------------------------------------------------------- *)
(* C29: scoutfs_buddy_alloc_same(order, existing) returns a block of the   *)
(* region of existing.  For a block of the pair region it is the other     *)
(* block of the pair, in the pair region, no block of the allocator is     *)
(* touched, and the same call on the result gives existing back; for a     *)
(* block of the bitmap region it is a block of                             *)
(* [BM_BLKNO + BM_NR, first_blkno); for a block of the buddy region it is  *)
(* at or after first_blkno.  scoutfs_buddy_free of a block of the pair     *)
(* region returns 0 and changes nothing.                                   *)
(* ---------------------------------------------------------------------- *)
(* a call of the name returns in this step *)
SameReturns(op) == calls' = calls + 1 /\ last'.op = op

(* the blocks before the buddy region that are not pair blocks *)
BitmapBlocks(sup) ==
    {b \in 0 .. (sup.total_blocks - 1) :
        /\ b >= SCOUTFS_BUDDY_BM_BLKNO + SCOUTFS_BUDDY_BM_NR
        /\ b < SCOUTFS_BUDDY_BM_BLKNO + SCOUTFS_BUDDY_BM_NR + sup.buddy_blocks}

C29_SameRegion ==
    [][/\ SameReturns("alloc_same") /\ last'.existing \in PairRegion =>
             /\ last'.ret = 0
             /\ last'.blkno # last'.existing
             /\ last'.blkno \div 2 = last'.existing \div 2
             /\ last'.blkno \in PairRegion
             /\ super' = super
             /\ (last.op = "alloc_same" /\ last'.existing = last.blkno
                 /\ last.existing \in PairRegion)
                   => last'.blkno = last.existing
       /\ SameReturns("alloc_same") /\ last'.existing \in BitmapBlocks(super)
          /\ last'.ret >= 0 =>
             last'.blkno \in BitmapBlocks(super)
       /\ SameReturns("alloc_same") /\ last'.ret >= 0
          /\ last'.existing \notin PairRegion \cup BitmapBlocks(super) =>
             last'.blkno >= SCOUTFS_BUDDY_BM_BLKNO + SCOUTFS_BUDDY_BM_NR
                            + super.buddy_blocks
       /\ SameReturns("free_same") /\ last'.blkno \in PairRegion =>
             /\ last'.ret = 0
             /\ super' = super]_vars

(* a call for the second block of the bitmap pair returned the first,     *)
(* after calls that returned a block of the bitmap region and one of the   *)
(* buddy region                                                            *)
C29_Witness ==
    /\ last.op = "alloc_same"
    /\ last.existing \in PairRegion
    /\ last.blkno = SCOUTFS_BUDDY_BM_BLKNO
    /\ last.ret = 0
    /\ \E b \in owned : b \in BitmapBlocks(super)
    /\ \E b \in owned : b \notin BitmapBlocks(super)


(* ---------------------------------------------------------------------- *)
(* C31: every exit of scoutfs_write_begin leaves the reference that the    *)
(* grab took balanced: after success the caller holds exactly one          *)
(* reference on the locked page, after an error (a failed read, a page     *)
(* not up to date after the read, a failed hold, a failed                  *)
(* __block_write_begin) the reference has been dropped exactly once and    *)
(* the page was unlocked at most once.                                     *)
(* ---------------------------------------------------------------------- *)
C31_PageBalanced ==
    /\ write.pc = "copy" =>
          write.refs = 1 /\ write.locked /\ write.unlocks = 0
    /\ write.pc = "idle" => write.refs = 0 /\ write.unlocks <= 1


(* ---------------------------------------------------------------------- *)
(* C32: after any allocs, frees of allocated extents and commits, no       *)
(* dirty buddy block has the two bits of a buddy pair set at an order      *)
(* below the highest; with C7 the bits are then the one maximal            *)
(* decomposition of the free blocks: a bit is set exactly if all blocks    *)
(* of its extent are free and, below the highest order, not all blocks of  *)
(* its parent's extent are.                                                *)
(* ---------------------------------------------------------------------- *)
(* the order-0 positions of a buddy block that some set bit covers *)
BudFree(bud) ==
    {b \in OrderBits(0) :
        \E k \in Orders : test_buddy_bit(bud, k, b \div Pow2(k))}

(* the order-0 positions under bit nr of the order *)
BitBlocks(order, nr) == (nr * Pow2(order)) .. ((nr + 1) * Pow2(order) - 1)

NoBuddyPair(bud) ==
    \A k \in 0 .. (SCOUTFS_BUDDY_ORDERS - 2) : \A nr \in OrderBits(k) :
        ~(test_buddy_bit(bud, k, nr) /\ test_buddy_bit(bud, k, Xor1(nr)))

MaximalBits(bud) ==
    \A k \in Orders : \A nr \in OrderBits(k) :
        test_buddy_bit(bud, k, nr) <=>
            /\ BitBlocks(k, nr) \subseteq BudFree(bud)
            /\ k < SCOUTFS_BUDDY_ORDERS - 1 =>
                  ~(BitBlocks(k + 1, nr \div 2) \subseteq BudFree(bud))

C32_MaximalMerge ==
    \A sl \in SlotIds :
        super.ind.slots[sl].ref # 0 =>
            NoBuddyPair(super.bud[sl]) /\ MaximalBits(super.bud[sl])

(* a free has just merged with a free buddy below the highest order while  *)
(* another extent of the slot stays allocated                              *)
C32_Witness ==
    /\ last.op = "free"
    /\ last.ret = 0
    /\ last.order = 0
    /\ \E sl \in SlotIds :
          /\ super.ind.slots[sl].ref # 0
          /\ indirect_slot(super, last.blkno) = sl
          /\ test_buddy_bit(super.bud[sl], 1,
                            buddy_bit(super, last.blkno) \div 2)
          /\ BudFree(super.bud[sl]) # OrderBits(0)
          /\ owned # {}


(* ---------------------------------------------------------------------- *)
(* C33: in a transaction that has freed no extent that is allocated in     *)
(* the stable view (every block free in the dirty view is free in the      *)
(* stable view, as right after a commit), scoutfs_buddy_alloc returns      *)
(* -ENOSPC only if no slot that has a buddy block has a free block in the  *)
(* dirty view.                                                             *)
(* ---------------------------------------------------------------------- *)
(* no block is free in the dirty view and allocated in the stable view *)
NoStableFreed == FreeBlocks(super) \subseteq FreeBlocks(stable_super)

(* the slots with a buddy block that have a free block in the dirty view *)
FreeSlots(sup) ==
    {sl \in SlotIds : sup.ind.slots[sl].ref # 0 /\ BudFree(sup.bud[sl]) # {}}

(* a call of scoutfs_buddy_alloc returns -ENOSPC in this step *)
AllocNoSpace ==
    calls' = calls + 1 /\ last'.op = "alloc" /\ last'.ret = -ENOSPC

C33_NoSpace ==
    [][AllocNoSpace /\ NoStableFreed => FreeSlots(super) = {}]_vars


(* ---------------------------------------------------------------------- *)
(* C34: when scoutfs_readpage_get_block maps a buffer of n blocks at       *)
(* logical block iblock to physical block b, the map item holds b + j for  *)
(* logical block iblock + j, for every j < n: no read resolves a logical   *)
(* block to a block other than the one in its entry of the item.          *)
(* ---------------------------------------------------------------------- *)
(* this step maps a buffer for a reader *)
BufferMapped ==
    last' # last /\ last'.op = "readpage_get_block" /\ last'.mapped

C34_ReadResolves ==
    [][BufferMapped =>
          \A j \in 0 .. (last'.b_size - 1) :
             /\ (last'.iblock % SCOUTFS_BLOCK_MAP_COUNT) + j
                   < SCOUTFS_BLOCK_MAP_COUNT
             /\ bmap[set_bmap_key(last'.who, last'.iblock)]
                    [(last'.iblock % SCOUTFS_BLOCK_MAP_COUNT) + j]
                   = last'.blkno + j]_vars


(* ---------------------------------------------------------------------- *)
(* C35: a call of scoutfs_buddy_alloc that returns an error leaves the     *)
(* dirty allocator as it was: no bit of the bitmap of the allocator's own  *)
(* blocks is cleared, no slot gets a buddy block, no buddy bit,            *)
(* order_counts, order_totals or free_orders changes, and                  *)
(* scoutfs_buddy_bfree gives the same count before and after.              *)
(* ---------------------------------------------------------------------- *)
(* a call of scoutfs_buddy_alloc returns an error in this step *)
AllocFailed == calls' = calls + 1 /\ last'.op = "alloc" /\ last'.ret < 0

C35_FailedAllocKeeps ==
    [][AllocFailed =>
          /\ super.bm \subseteq super'.bm
          /\ \A sl \in SlotIds :
                /\ super.ind.slots[sl].ref = 0 => super'.ind.slots[sl].ref = 0
                /\ super'.ind.slots[sl].free_orders
                      = super.ind.slots[sl].free_orders
          /\ super'.bud = super.bud
          /\ super'.ind.order_totals = super.ind.order_totals
          /\ scoutfs_buddy_bfree(super') = scoutfs_buddy_bfree(super)]_vars

(* ---------------------------------------------------------------------- *)
(* C36: every scoutfs_buddy_alloc call ends.  In every state that allocs,  *)
(* frees and commits reach, and for every order a caller may ask for:      *)
(* buddy_alloc's loop calls alloc_order for at most order + 1 orders, each *)
(* lower than the one before; alloc_order calls alloc_slot for each slot   *)
(* at most once, in ascending order; find_first_fit's loop ends within one *)
(* pass more than the slot has free bits, and every pass but the last      *)
(* moves the scan position of some order forward and of none backward;     *)
(* bitmap_alloc's scan ends within buddy_blocks + 1 iterations with d = s  *)
(* at or before buddy_blocks.                                              *)
(* ---------------------------------------------------------------------- *)
(* bitmap_alloc as the block layer would call it from sup *)
ScanEnds(sup) ==
    LET size == sup.buddy_blocks
        steps == bitmap_scan_steps(sup.bm, stable_super.bm, size, 0, size + 2)
    IN /\ Len(steps) >= 1
       /\ Len(steps) <= size + 1
       /\ steps[Len(steps)].d = steps[Len(steps)].s
       /\ steps[Len(steps)].d <= size
       /\ \A k \in 1 .. (Len(steps) - 1) : steps[k].d < steps[k + 1].d

FitStart ==
    [nrs |-> [i \in Orders |-> 0], blkno |-> U64_MAX, made_progress |-> FALSE,
     ret |-> INT_MAX, order_ret |-> 0]

(* find_first_fit as alloc_slot calls it for slot sl from sup *)
FitPasses(sup, sl, order) ==
    LET d == dirty_buddy_block(sup, stable_super, sl)
    IN IF d.ret # 0 THEN <<>>
       ELSE find_first_fit_passes(d.sup, sl, d.sup.bud[sl],
                                  stable_super.ind.slots[sl].ref = 0,
                                  stable_super.bud[sl], order, FitStart,
                                  Cardinality(d.sup.bud[sl].bits) + 2)

PassesEnd(passes, nbits) ==
    /\ Len(passes) <= nbits + 1
    /\ Len(passes) >= 1 =>
          ~(passes[Len(passes)].ret = INT_MAX
            /\ passes[Len(passes)].made_progress)
    /\ \A k \in 1 .. (Len(passes) - 1) :
          LET before == IF k = 1 THEN FitStart.nrs ELSE passes[k - 1].nrs
          IN /\ \A i \in Orders : passes[k].nrs[i] >= before[i]
             /\ \E i \in Orders : passes[k].nrs[i] > before[i]

FitEnds(sup, sl, order) ==
    LET d == dirty_buddy_block(sup, stable_super, sl)
    IN d.ret = 0 =>
          PassesEnd(FitPasses(sup, sl, order),
                    Cardinality(d.sup.bud[sl].bits))

(* the super alloc_order's loop starts from: the indirect block is dirty *)
OrderVisits(sup, order) ==
    IF sup.buddy_ind_ref = 0 \/ stable_super.buddy_ind_ref = 0 THEN <<>>
    ELSE LET r == block_dirty_ref_bm(sup, stable_super, sup.buddy_ind_ref,
                                     stable_super.buddy_ind_ref)
         IN IF r.ret # 0 THEN <<>>
            ELSE alloc_order_visits([r.sup EXCEPT !.buddy_ind_ref = r.blkno],
                                    stable_super, order, 0,
                                    SCOUTFS_BUDDY_SLOTS + 1)

OrderEnds(sup, order) ==
    LET visits == OrderVisits(sup, order)
    IN /\ ScanEnds(sup)
       /\ Len(visits) <= SCOUTFS_BUDDY_SLOTS
       /\ \A k \in 1 .. Len(visits) :
             /\ k > 1 => visits[k - 1].sl < visits[k].sl
             /\ ScanEnds(visits[k].sup)
             /\ FitEnds(visits[k].sup, visits[k].sl, order)

AllocTries(order) ==
    buddy_alloc_tries(super, stable_super, order, order + 2)

C36_Terminates ==
    \A order \in Orders :
       LET tries == AllocTries(order)
       IN /\ Len(tries) >= 1
          /\ Len(tries) <= order + 1
          /\ tries[Len(tries)].ret # -ENOSPC \/ tries[Len(tries)].order = 0
          /\ \A k \in 1 .. Len(tries) :
                /\ tries[k].order = order - (k - 1)
                /\ OrderEnds(tries[k].sup, tries[k].order)

(* a call for the highest order that tries every order down to 0, whose   *)
(* first-fit search of slot 0 takes three passes and whose bitmap scan     *)
(* takes more than one iteration                                           *)
C36_Witness ==
    /\ Len(AllocTries(SCOUTFS_BUDDY_ORDERS - 1)) = SCOUTFS_BUDDY_ORDERS
    /\ Len(OrderVisits(super, 0)) >= 1
    /\ Len(FitPasses(OrderVisits(super, 0)[1].sup, OrderVisits(super, 0)[1].sl, 0)) >= 3
    /\ Len(bitmap_scan_steps(super.bm, stable_super.bm, super.buddy_blocks, 0,
                             super.buddy_blocks + 2)) >= 2

====
